---- MODULE Spec2Model ----
(***************************************************************************)
(* OCP Explorer: the search orchestrator (js/search.js), the data handler  *)
(* it queries (OCPDataHandler) and the AI proxy's request validation.      *)
(*                                                                         *)
(* A JavaScript string is modelled as a sequence of one-character strings, *)
(* so that trimming, character classes, splitting and substring tests are  *)
(* computed as the code computes them.                                     *)
(***************************************************************************)
EXTENDS Integers, Sequences, FiniteSets, TLC

(***************************************************************************)
(* Characters and strings                                                  *)
(***************************************************************************)
LowerLetters == <<"a","b","c","d","e","f","g","h","i","j","k","l","m",
                  "n","o","p","q","r","s","t","u","v","w","x","y","z">>

UpperLetters == <<"A","B","C","D","E","F","G","H","I","J","K","L","M",
                  "N","O","P","Q","R","S","T","U","V","W","X","Y","Z">>

DigitChars == {"0","1","2","3","4","5","6","7","8","9"}

Range(s) == {s[i] : i \in DOMAIN s}

UpperSet == Range(UpperLetters)

LowerSet == Range(LowerLetters)

\* the lower-case letter of every upper-case letter
LowerOf == [c \in UpperSet |->
              LowerLetters[CHOOSE i \in DOMAIN UpperLetters : UpperLetters[i] = c]]

\* \s of a JavaScript regular expression (the members the inputs use)
IsSpace(c) == c \in {" ", "\t", "\n"}

IsUpper(c) == c \in UpperSet

IsLower(c) == c \in LowerSet

IsDigit(c) == c \in DigitChars

\* \w of a JavaScript regular expression: [A-Za-z0-9_]
IsWordChar(c) == IsUpper(c) \/ IsLower(c) \/ IsDigit(c) \/ c = "_"

\* a string given character by character, as the sequence of its characters
Chars(f) == SubSeq(f, 1, Len(f))

\* String.prototype.toLowerCase, one character
LowerChar(c) == IF IsUpper(c) THEN LowerOf[c] ELSE c

\* String.prototype.toLowerCase
ToLowerCase(s) == Chars([i \in DOMAIN s |-> LowerChar(s[i])])

SetMin(S) == CHOOSE x \in S : \A y \in S : x <= y

\* String.prototype.trim: from the first to the last character that is no space
Trim(s) ==
    LET keep  == {i \in DOMAIN s : ~IsSpace(s[i])}
        first == CHOOSE i \in keep : \A j \in 1..(i - 1) : IsSpace(s[j])
        last  == CHOOSE i \in keep : \A j \in (i + 1)..Len(s) : IsSpace(s[j])
    IN  IF keep = {} THEN <<>> ELSE SubSeq(s, first, last)

\* .replace(/[^\w\s\-\']/g, ' ')
ReplaceSpecial(s) ==
    Chars([i \in DOMAIN s |->
              IF IsWordChar(s[i]) \/ IsSpace(s[i]) \/ s[i] = "-" \/ s[i] = "'"
              THEN s[i] ELSE " "])

\* the positions of s, in order
Positions(s) == [i \in DOMAIN s |-> i]

\* .replace(/\s+/g, ' '): every run of whitespace becomes one space
CollapseSpaces(s) ==
    LET kept == SelectSeq(Positions(s), LAMBDA i :
                    ~IsSpace(s[i]) \/ i = 1 \/ ~IsSpace(s[i - 1]))
    IN  Chars([k \in DOMAIN kept |-> IF IsSpace(s[kept[k]]) THEN " " ELSE s[kept[k]]])

\* OCPSearchEngine.cleanQuery, for a query that is a string
cleanQuery(query) == ToLowerCase(CollapseSpaces(ReplaceSpecial(Trim(query))))

\* String.prototype.includes
Includes(text, part) ==
    \E i \in 0..(Len(text) - Len(part)) :
        /\ part = <<>> \/ text[i + 1] = part[1]
        /\ SubSeq(text, i + 1, i + Len(part)) = part

\* String.prototype.split(' '): the pieces between the spaces, empty ones too
SplitOnSpace(s) ==
    LET cuts == <<0>> \o SelectSeq(Positions(s), LAMBDA i : s[i] = " ") \o <<Len(s) + 1>>
    IN  [k \in 1..(Len(cuts) - 1) |-> SubSeq(s, cuts[k] + 1, cuts[k + 1] - 1)]

\* Array.prototype.slice(0, n) for n >= 0
Slice(s, n) == SubSeq(s, 1, IF n < Len(s) THEN n ELSE Len(s))

RECURSIVE Join(_)
\* Array.prototype.join(' ')
Join(words) ==
    IF words = <<>> THEN <<>>
    ELSE IF Len(words) = 1 THEN words[1]
    ELSE words[1] \o <<" ">> \o Join(Tail(words))

(***************************************************************************)
(* String literals of the code, as character sequences                     *)
(***************************************************************************)
Str_residential == <<"r","e","s","i","d","e","n","t","i","a","l">>

Str_housing == <<"h","o","u","s","i","n","g">>

Str_mixed == <<"m","i","x","e","d">>

Str_mixed_use == <<"m","i","x","e","d","-","u","s","e">>

Str_commercial == <<"c","o","m","m","e","r","c","i","a","l">>

Str_employment == <<"e","m","p","l","o","y","m","e","n","t">>

Str_industrial == <<"i","n","d","u","s","t","r","i","a","l">>

Str_park == <<"p","a","r","k">>

Str_environmental == <<"e","n","v","i","r","o","n","m","e","n","t","a","l">>

Str_over == <<"o","v","e","r"," ">>

Str_under == <<"u","n","d","e","r"," ">>

Str_between == <<"b","e","t","w","e","e","n"," ">>

Str_and == <<" ","a","n","d"," ">>

Str_storey == <<"s","t","o","r","e","y">>

Str_floor == <<"f","l","o","o","r">>

Str_use == <<"u","s","e">>

Str_zoning == <<"z","o","n","i","n","g">>

Str_land == <<"l","a","n","d">>

Str_script == <<"s","c","r","i","p","t">>

Str_eval == <<"e","v","a","l">>

Str_economy == <<"e","c","o","n","o","m","y">>

(***************************************************************************)
(* Regular expressions of search.js                                        *)
(***************************************************************************)
\* the literal lit occurs in s at position i
MatchAt(s, i, lit) ==
    /\ i >= 1
    /\ i + Len(lit) - 1 <= Len(s)
    /\ lit = <<>> \/ s[i] = lit[1]
    /\ SubSeq(s, i, i + Len(lit) - 1) = lit

RECURSIVE DigitsEnd(_, _)
\* \d* from position i: the position after the longest run of digits
DigitsEnd(s, i) == IF i <= Len(s) /\ IsDigit(s[i]) THEN DigitsEnd(s, i + 1) ELSE i

RECURSIVE SpacesEnd(_, _)
\* \s* from position i: the position after the longest run of whitespace
SpacesEnd(s, i) == IF i <= Len(s) /\ IsSpace(s[i]) THEN SpacesEnd(s, i + 1) ELSE i

DigitValue(c) ==
    CASE c = "0" -> 0 [] c = "1" -> 1 [] c = "2" -> 2 [] c = "3" -> 3 [] c = "4" -> 4
      [] c = "5" -> 5 [] c = "6" -> 6 [] c = "7" -> 7 [] c = "8" -> 8 [] c = "9" -> 9

RECURSIVE ParseInt(_)
\* parseInt of a non-empty run of decimal digits
ParseInt(ds) ==
    IF ds = <<>> THEN 0 ELSE 10 * ParseInt(SubSeq(ds, 1, Len(ds) - 1)) + DigitValue(ds[Len(ds)])

\* the alternation (storey|floor|metre|meter), in its order
HeightUnits == <<Str_storey, Str_floor, <<"m","e","t","r","e">>, <<"m","e","t","e","r">>>>

\* the alternative of (storey|floor|metre|meter) matching at position i, or <<>>
UnitAt(s, i) ==
    IF \E k \in DOMAIN HeightUnits : MatchAt(s, i, HeightUnits[k])
    THEN HeightUnits[SetMin({k \in DOMAIN HeightUnits : MatchAt(s, i, HeightUnits[k])})]
    ELSE <<>>

\* the factor 3 for storeys only
UnitFactor_StoreyOnly(unit) == IF Includes(unit, Str_storey) THEN 3 ELSE 1

\* match[2].includes('storey') || match[2].includes('floor') ? 3 : 1
UnitFactor(unit) == IF Includes(unit, Str_storey) \/ Includes(unit, Str_floor) THEN 3 ELSE 1

\* OCPSearchEngine.isSimpleQuery
isSimpleQuery(query) ==
    LET q  == Trim(query)
        ql == ToLowerCase(q)
        n  == Len(q)
    IN  \/ ql \in {Str_residential, Str_commercial, Str_industrial}
        \/ ql = Str_mixed \o Str_use
        \/ n = 9 /\ MatchAt(ql, 1, Str_mixed) /\ MatchAt(ql, 7, Str_use) /\ ql[6] # "\n"
        \/ \E k \in 1..5 :
              /\ k <= n
              /\ \A i \in 1..k : IsUpper(q[i])
              /\ \A i \in (k + 1)..n : IsDigit(q[i])
        \/ LET d == DigitsEnd(ql, 1)
               u == SpacesEnd(ql, d)
               unit == UnitAt(ql, u)
               e == u + Len(unit)
           IN  /\ d > 1
               /\ unit # <<>>
               /\ \/ e = n + 1
                  \/ e = n /\ ql[n] = "s"
        \/ ql \in {<<"h","e","i","g","h","t">>, <<"d","e","n","s","i","t","y">>,
                  <<"f","a","r">>, Str_zoning}
        \/ ql = Str_land \o Str_use
        \/ n = 8 /\ MatchAt(ql, 1, Str_land) /\ MatchAt(ql, 6, Str_use) /\ ql[5] # "\n"

\* the categoryMap of detectCategories, in its order
CategoryMap ==
    << [category |-> Str_residential,
        keywords |-> <<Str_residential,
                       Str_housing,
                       <<"h","o","m","e","s">>,
                       <<"a","p","a","r","t","m","e","n","t","s">>,
                       <<"c","o","n","d","o","s">>,
                       <<"h","o","u","s","e","s">>>>],
       [category |-> Str_mixed_use,
        keywords |-> <<Str_mixed,
                       Str_mixed_use,
                       <<"m","i","x","e","d"," ","u","s","e">>,
                       <<"c","o","m","b","i","n","e","d">>>>],
       [category |-> Str_commercial,
        keywords |-> <<Str_commercial,
                       <<"r","e","t","a","i","l">>,
                       <<"b","u","s","i","n","e","s","s">>,
                       <<"s","h","o","p","s">>,
                       <<"s","t","o","r","e","s">>>>],
       [category |-> Str_employment,
        keywords |-> <<Str_employment,
                       Str_industrial,
                       <<"w","o","r","k">>,
                       <<"j","o","b","s">>,
                       <<"o","f","f","i","c","e">>>>],
       [category |-> Str_environmental,
        keywords |-> <<Str_park,
                       <<"g","r","e","e","n">>,
                       Str_environmental,
                       <<"n","a","t","u","r","e">>>>] >>

RECURSIVE SelectCategories(_, _)
SelectCategories(queryLower, k) ==
    IF k > Len(CategoryMap) THEN <<>>
    ELSE (IF \E j \in DOMAIN CategoryMap[k].keywords :
                 Includes(queryLower, CategoryMap[k].keywords[j])
          THEN <<CategoryMap[k].category>> ELSE <<>>)
         \o SelectCategories(queryLower, k + 1)

\* OCPSearchEngine.detectCategories
detectCategories(queryLower) == SelectCategories(queryLower, 1)

NoHeight == [matched |-> FALSE, hasMin |-> FALSE, min |-> 0, hasMax |-> FALSE, max |-> 0]

\* /over (\d+)\s*(storey|floor|metre|meter)s?/i or /under .../i at position i
OneBoundAt(s, i, word) ==
    LET a == i + Len(word)
        d == DigitsEnd(s, a)
        u == SpacesEnd(s, d)
    IN  MatchAt(s, i, word) /\ d > a /\ UnitAt(s, u) # <<>>

OneBoundValue(s, i, word) ==
    LET a == i + Len(word)
        d == DigitsEnd(s, a)
        u == SpacesEnd(s, d)
    IN  ParseInt(SubSeq(s, a, d - 1)) * UnitFactor(UnitAt(s, u))

\* /between (\d+) and (\d+)\s*(storey|floor|metre|meter)s?/i at position i
BetweenAt(s, i) ==
    LET a  == i + Len(Str_between)
        d1 == DigitsEnd(s, a)
        b  == d1 + Len(Str_and)
        d2 == DigitsEnd(s, b)
        u  == SpacesEnd(s, d2)
    IN  /\ MatchAt(s, i, Str_between)
        /\ d1 > a
        /\ MatchAt(s, d1, Str_and)
        /\ d2 > b
        /\ UnitAt(s, u) # <<>>

BetweenValue(s, i) ==
    LET a  == i + Len(Str_between)
        d1 == DigitsEnd(s, a)
        b  == d1 + Len(Str_and)
        d2 == DigitsEnd(s, b)
        u  == SpacesEnd(s, d2)
        k  == UnitFactor(UnitAt(s, u))
    IN  [matched |-> TRUE,
         hasMin |-> TRUE, min |-> ParseInt(SubSeq(s, a, d1 - 1)) * k,
         hasMax |-> TRUE, max |-> ParseInt(SubSeq(s, b, d2 - 1)) * k]

\* OCPSearchEngine.parseHeightQuery; matched = FALSE is the null result
parseHeightQuery(queryLower) ==
    LET s     == queryLower
        over  == {i \in DOMAIN s : OneBoundAt(s, i, Str_over)}
        under == {i \in DOMAIN s : OneBoundAt(s, i, Str_under)}
        betw  == {i \in DOMAIN s : BetweenAt(s, i)}
    IN  IF over # {}
        THEN [matched |-> TRUE, hasMin |-> TRUE,
              min |-> OneBoundValue(s, SetMin(over), Str_over),
              hasMax |-> FALSE, max |-> 0]
        ELSE IF under # {}
        THEN [matched |-> TRUE, hasMin |-> FALSE, min |-> 0,
              hasMax |-> TRUE,
              max |-> OneBoundValue(s, SetMin(under), Str_under)]
        ELSE IF betw # {}
        THEN BetweenValue(s, SetMin(betw))
        ELSE NoHeight

\* no parseHeightQuery call yet
NoHeightCall == [called |-> FALSE, queryLower |-> <<>>, result |-> NoHeight]

(***************************************************************************)
(* The data files (data/land-use.json, data/zoning.json,                   *)
(* data/ocp-policies.json, data/City_Boundary.geojson): a small data set   *)
(* of the documented shape, in the files' key order.  Coordinates are in   *)
(* thousandths of a degree.                                                *)
(***************************************************************************)
LandUseDesignations ==
    << [code |-> <<"R","D">>, name |-> <<"D","e","t","a","c","h","e","d">>,
        description |-> <<"f","a","m","i","l","y"," ","h","o","m","e","s">>, category |-> Str_residential,
        principalUses |-> <<<<"h","o","u","s","e">>>>, complementaryUses |-> <<<<"p","a","r","k">>>>],
       [code |-> <<"R","M">>, name |-> <<"M","u","l","t","i","p","l","e">>,
        description |-> <<"a","p","a","r","t","m","e","n","t","s">>, category |-> Str_residential,
        principalUses |-> <<<<"f","l","a","t","s">>>>, complementaryUses |-> <<<<"s","h","o","p","s">>>>],
       [code |-> <<"R","H">>, name |-> <<"T","o","w","e","r","s">>,
        description |-> <<"t","a","l","l"," ","h","o","m","e","s">>, category |-> Str_residential,
        principalUses |-> <<<<"f","l","a","t","s">>>>, complementaryUses |-> <<>>],
       [code |-> <<"M","H">>, name |-> <<"M","i","x","e","d"," ","H","i","g","h">>,
        description |-> <<"r","e","t","a","i","l"," ","a","n","d"," ","h","o","m","e","s">>, category |-> Str_mixed_use,
        principalUses |-> <<<<"r","e","t","a","i","l">>, <<"o","f","f","i","c","e">>>>, complementaryUses |-> <<>>] >>

\* zoningDistricts: category name, then zone code
ZoningDistricts ==
    << [categoryName |-> Str_residential,
        zones |-> << [code |-> <<"R","S","1">>, name |-> <<"S","i","n","g","l","e">>,
                      description |-> <<"o","n","e"," ","h","o","u","s","e">>, maxHeight |-> <<"9","m">>],
                     [code |-> <<"R","M","1">>, name |-> <<"L","o","w","r","i","s","e">>,
                      description |-> <<>>, maxHeight |-> <<"1","2","m">>] >>],
       [categoryName |-> <<"m","i","x","e","d","U","s","e">>,
        zones |-> << [code |-> <<"M","U","2">>, name |-> <<"C","e","n","t","r","e">>,
                      description |-> <<"m","i","x","e","d"," ","t","o","w","e","r","s">>, maxHeight |-> <<"4","5","m">>] >>] >>

\* policies: category key, then policy key
Policies ==
    << [categoryKey |-> Str_housing,
        entries |-> << [key |-> <<"1",".","1">>, title |-> <<"R","e","n","t","a","l">>,
                        text |-> <<"p","r","o","t","e","c","t"," ","r","e","n","t","a","l"," ","h","o","m","e","s">>] >>],
       [categoryKey |-> Str_economy,
        entries |-> << [key |-> <<"3",".","1">>, title |-> <<"J","o","b","s">>,
                        text |-> <<"o","f","f","i","c","e"," ","w","o","r","k">>],
                       [key |-> <<"3",".","2">>, title |-> <<"R","e","t","a","i","l">>,
                        text |-> <<"l","o","c","a","l"," ","s","h","o","p","s">>],
                       [key |-> <<"3",".","3">>, title |-> <<"P","o","r","t">>,
                        text |-> <<"i","n","d","u","s","t","r","i","a","l"," ","l","a","n","d">>] >>] >>

\* the rings of the Polygon features of City_Boundary.geojson, each a closed
\* list of <<longitude, latitude>>: the main area, a hole in it, an enclave
BoundaryRings ==
    << << <<-122940, 49195>>, <<-122890, 49195>>, <<-122890, 49225>>,
          <<-122940, 49225>>, <<-122940, 49195>> >>,
       << <<-122920, 49200>>, <<-122910, 49200>>, <<-122910, 49204>>,
          <<-122920, 49204>>, <<-122920, 49200>> >>,
       << <<-122880, 49180>>, <<-122870, 49180>>, <<-122875, 49188>>,
          <<-122880, 49180>> >> >>

(***************************************************************************)
(* State                                                                   *)
(***************************************************************************)
VARIABLES
    handler,         \* which OCPDataHandler script the page loads
    loadingPromise,  \* OCPDataHandler.loadingPromise: "null", "pending", "resolved", "rejected"
    isLoaded,        \* OCPDataHandler.isLoaded
    data,            \* OCPDataHandler.data: which tables are set
    boundaryGeometry,\* OCPDataHandler.boundaryGeometry: [set, rings]
    isInitialized,   \* OCPSearchEngine.isInitialized
    searchCache,     \* OCPSearchEngine.searchCache: entries [key, value], insertion order
    searchHistory,   \* OCPSearchEngine.searchHistory, most recent first
    pending,         \* the search() calls suspended at an await
    ret,             \* the search() call that settled last, with what it did
    nCalls,          \* search() calls made so far; also the clock read by Date.now()
    recorded,        \* every entry addToHistory received since the last clear, most recent first
    loads,           \* the promise of every loadAllData() call so far: how it settled
    callers,         \* for every OCPDataHandler.initialize() call so far, the promise it returned
    loadPc,          \* the position of loadAllData()
    dispatched,      \* 'ocpDataLoaded' events dispatched so far
    locating,        \* the getLocationInfo() call suspended at its await, if any
    located,         \* what the last getLocationInfo() call returned
    heightCall,      \* the last parseHeightQuery() call and its result
    rateLimitStore,  \* the proxy's rateLimitStore: entries [key, count, resetTime]
    clock,           \* the proxy's Date.now(), in minutes
    windows,         \* per client, the window its requests fall in: [client, start, seen]
    response         \* the last request the proxy handled and its response

\* OCPSearchEngine and the fields of OCPDataHandler it reads
searchVars == <<handler, loadingPromise, isLoaded, data, boundaryGeometry, isInitialized,
                searchCache, searchHistory, pending, ret, nCalls, recorded>>

loadVars == <<loads, callers, loadPc, dispatched>>

locateVars == <<locating, located>>

proxyVars == <<rateLimitStore, clock, windows, response>>

vars == <<searchVars, loadVars, locateVars, heightCall, proxyVars>>

\* src/js/data-handler.js: boundary geometry; no searchByHeight, no prepareContextForAI
HandlerJs == "js/data-handler.js"

\* src/unnamed/part_002: bounding box only; searchByHeight and prepareContextForAI
HandlerAlt == "unnamed/part_002"

Null == [null |-> TRUE]

NoData == [landUse |-> FALSE, zoning |-> FALSE, policies |-> FALSE, cityBoundary |-> FALSE]

NoGeometry == [set |-> FALSE, rings |-> <<>>]

NoLocation == [present |-> FALSE, lat |-> 0, lng |-> 0]

Location(lat, lng) == [present |-> TRUE, lat |-> lat, lng |-> lng]

(***************************************************************************)
(* OCPDataHandler                                                          *)
(***************************************************************************)
\* one crossing test of the ray casting loop, for the edge from ring[j] to ring[i]:
\* ((yi > lat) !== (yj > lat)) && (lng < (xj - xi) * (lat - yi) / (yj - yi) + xi)
EdgeCrosses(lat, lng, pi, pj) ==
    LET xi == pi[1]
        yi == pi[2]
        xj == pj[1]
        yj == pj[2]
        d  == yj - yi
    IN  /\ (yi > lat) # (yj > lat)
        /\ IF d > 0
           THEN (lng - xi) * d < (xj - xi) * (lat - yi)
           ELSE (lng - xi) * d > (xj - xi) * (lat - yi)

\* OCPDataHandler.isPointInPolygon: inside is toggled once per crossing edge
isPointInPolygon(lat, lng, polygon) ==
    LET n == Len(polygon)
        crossings == {i \in 1..n :
                        EdgeCrosses(lat, lng, polygon[i],
                                    polygon[IF i = 1 THEN n ELSE i - 1])}
    IN  Cardinality(crossings) % 2 = 1

\* the fallback bounds without their edges
InFallbackBounds_Exclusive(lat, lng) ==
    lat > 49190 /\ lat < 49230 /\ lng > -122950 /\ lng < -122880

\* the fallback bounds { north: 49.23, south: 49.19, east: -122.88, west: -122.95 }
InFallbackBounds(lat, lng) ==
    lat >= 49190 /\ lat <= 49230 /\ lng >= -122950 /\ lng <= -122880

\* isWithinNewWestminster with the even-odd rule over all rings: a ring inside
\* another is a hole
isWithinNewWestminster_HolesSubtracted(lat, lng) ==
    IF handler = HandlerAlt THEN InFallbackBounds(lat, lng)
    ELSE IF ~boundaryGeometry.set \/ Len(boundaryGeometry.rings) = 0
         THEN InFallbackBounds(lat, lng)
         ELSE Cardinality({r \in DOMAIN boundaryGeometry.rings :
                              isPointInPolygon(lat, lng, boundaryGeometry.rings[r])}) % 2 = 1

\* OCPDataHandler.isWithinNewWestminster
isWithinNewWestminster(lat, lng) ==
    IF handler = HandlerAlt THEN InFallbackBounds(lat, lng)
    ELSE IF ~boundaryGeometry.set \/ Len(boundaryGeometry.rings) = 0
         THEN InFallbackBounds(lat, lng)
         ELSE \E r \in DOMAIN boundaryGeometry.rings :
                  isPointInPolygon(lat, lng, boundaryGeometry.rings[r])

\* getLandUseInfo without the isLoaded test
getLandUseInfo_NoLoadedCheck(designationCode) ==
    IF ~data.landUse THEN Null
    ELSE IF \E i \in DOMAIN LandUseDesignations :
                LandUseDesignations[i].code = designationCode
         THEN LandUseDesignations[CHOOSE i \in DOMAIN LandUseDesignations :
                                     LandUseDesignations[i].code = designationCode]
         ELSE Null

\* OCPDataHandler.getLandUseInfo
getLandUseInfo(designationCode) ==
    IF ~isLoaded \/ ~data.landUse THEN Null
    ELSE IF \E i \in DOMAIN LandUseDesignations :
                LandUseDesignations[i].code = designationCode
         THEN LandUseDesignations[CHOOSE i \in DOMAIN LandUseDesignations :
                                     LandUseDesignations[i].code = designationCode]
         ELSE Null

\* every zone of zoningDistricts, as [categoryName, zone], in iteration order
RECURSIVE ZonesFrom(_)
ZonesFrom(k) ==
    IF k > Len(ZoningDistricts) THEN <<>>
    ELSE [j \in DOMAIN ZoningDistricts[k].zones |->
             [categoryName |-> ZoningDistricts[k].categoryName,
              zone |-> ZoningDistricts[k].zones[j]]]
         \o ZonesFrom(k + 1)

AllZones == ZonesFrom(1)

\* OCPDataHandler.getZoningInfo
getZoningInfo(zoneCode) ==
    IF ~isLoaded \/ ~data.zoning THEN Null
    ELSE LET hits == {i \in DOMAIN AllZones : AllZones[i].zone.code = zoneCode}
         IN  IF hits = {} THEN Null ELSE AllZones[SetMin(hits)].zone

\* OCPDataHandler.searchByCategory
searchByCategory(category) ==
    IF ~isLoaded \/ ~data.landUse THEN <<>>
    ELSE SelectSeq(LandUseDesignations, LAMBDA d : d.category = category)

\* every policy, as [categoryKey, policy], in iteration order
RECURSIVE PoliciesFrom(_)
PoliciesFrom(k) ==
    IF k > Len(Policies) THEN <<>>
    ELSE [j \in DOMAIN Policies[k].entries |->
             [categoryKey |-> Policies[k].categoryKey, policy |-> Policies[k].entries[j]]]
         \o PoliciesFrom(k + 1)

AllPolicies == PoliciesFrom(1)

\* OCPDataHandler.getPoliciesByCategory
getPoliciesByCategory(category) ==
    IF ~isLoaded \/ ~data.policies THEN <<>>
    ELSE LET hits == {k \in DOMAIN Policies : Policies[k].categoryKey = category}
         IN  IF hits = {} THEN <<>> ELSE Policies[SetMin(hits)].entries

\* keywords.some(keyword => searchText.includes(keyword))
SomeKeywordIn(keywords, searchText) ==
    \E k \in DOMAIN keywords : Includes(ToLowerCase(searchText), keywords[k])

\* a result item; code = <<>> stands for an item without a code, and the texts
\* that the code builds from a template start with the template's literal
Item(type, code, name, description, matchReason) ==
    [type |-> type, code |-> code, name |-> name, description |-> description,
     matchReason |-> matchReason]

\* searchByKeywords of src/unnamed/part_002: land use designations, then policies
searchByKeywordsAlt(query) ==
    LET keywords == SplitOnSpace(ToLowerCase(query))
        landHits == SelectSeq(LandUseDesignations, LAMBDA d :
                        SomeKeywordIn(keywords,
                            d.name \o <<" ">> \o d.description \o <<" ">>
                            \o Join(d.principalUses) \o <<" ">> \o Join(d.complementaryUses)))
        polHits  == SelectSeq(AllPolicies, LAMBDA p :
                        SomeKeywordIn(keywords, p.policy.title \o <<" ">> \o p.policy.text))
    IN  (IF data.landUse
         THEN [i \in DOMAIN landHits |->
                  Item("land-use", landHits[i].code, landHits[i].name,
                       landHits[i].description, <<>>)]
         ELSE <<>>)
        \o
        (IF data.policies
         THEN [i \in DOMAIN polHits |->
                  Item("policy", polHits[i].categoryKey \o <<".">> \o polHits[i].policy.key,
                       polHits[i].policy.title, polHits[i].policy.text, <<>>)]
         ELSE <<>>)

\* searchByKeywords of src/js/data-handler.js: land use designations, then zones
searchByKeywordsJs(query) ==
    LET keywords == SplitOnSpace(ToLowerCase(query))
        landHits == SelectSeq(LandUseDesignations, LAMBDA d :
                        SomeKeywordIn(keywords,
                            d.name \o <<" ">> \o d.description \o <<" ">> \o d.category))
        zoneHits == SelectSeq(AllZones, LAMBDA z :
                        SomeKeywordIn(keywords,
                            z.zone.name \o <<" ">> \o z.zone.description \o <<" ">>
                            \o z.categoryName))
    IN  (IF data.landUse
         THEN [i \in DOMAIN landHits |->
                  Item("landUse", landHits[i].code, landHits[i].name,
                       landHits[i].description, <<>>)]
         ELSE <<>>)
        \o
        (IF data.zoning
         THEN [i \in DOMAIN zoneHits |->
                  Item("zoning", zoneHits[i].zone.code, zoneHits[i].zone.name,
                       zoneHits[i].zone.description, <<>>)]
         ELSE <<>>)

\* OCPDataHandler.searchByKeywords
searchByKeywords(query) ==
    IF ~isLoaded THEN <<>>
    ELSE IF handler = HandlerAlt THEN searchByKeywordsAlt(query)
    ELSE searchByKeywordsJs(query)

\* OCPDataHandler.parseHeight: heightString.match(/(\d+)m/), -1 for no match
parseHeight(heightString) ==
    LET at == {i \in DOMAIN heightString :
                 /\ IsDigit(heightString[i])
                 /\ DigitsEnd(heightString, i) <= Len(heightString)
                 /\ heightString[DigitsEnd(heightString, i)] = "m"}
    IN  IF at = {} THEN -1
        ELSE ParseInt(SubSeq(heightString, SetMin(at), DigitsEnd(heightString, SetMin(at)) - 1))

\* OCPDataHandler.isHeightInRange
isHeightInRange(height, h) ==
    /\ ~(h.hasMin /\ height < h.min)
    /\ ~(h.hasMax /\ height > h.max)

\* OCPDataHandler.searchByHeight (src/unnamed/part_002)
searchByHeight(h) ==
    IF ~isLoaded THEN <<>>
    ELSE IF ~data.zoning THEN <<>>
    ELSE LET hits == SelectSeq(AllZones, LAMBDA z :
                        /\ z.zone.maxHeight # <<>>
                        /\ parseHeight(z.zone.maxHeight) > 0
                        /\ isHeightInRange(parseHeight(z.zone.maxHeight), h))
         IN  [i \in DOMAIN hits |-> Item("zoning", hits[i].zone.code, hits[i].zone.name, <<>>, <<>>)]

\* getLocationInfo without the slice(0, 2)
LocationInfo_NoSlice(lat, lng, withinBoundary) ==
    IF withinBoundary
    THEN [withinBoundary |-> TRUE, landUse |-> getLandUseInfo(<<"M","H">>),
          zoning |-> getZoningInfo(<<"M","U","2">>),
          policies |-> getPoliciesByCategory(Str_economy)]
    ELSE [withinBoundary |-> FALSE, landUse |-> Null, zoning |-> Null, policies |-> <<>>]

\* OCPDataHandler.getLocationInfo after its await: the info object it fills
\* and returns
LocationInfo(lat, lng, withinBoundary) ==
        IF withinBoundary
        THEN [withinBoundary |-> TRUE,
              landUse |-> IF lat > 49210 THEN getLandUseInfo(<<"R","D">>)
                          ELSE IF lat > 49205 THEN getLandUseInfo(<<"R","M">>)
                          ELSE getLandUseInfo(<<"M","H">>),
              zoning  |-> IF lat > 49210
                          THEN getZoningInfo(IF handler = HandlerAlt
                                             THEN <<"R","1">> ELSE <<"R","S","1">>)
                          ELSE IF lat > 49205 THEN getZoningInfo(<<"R","M","1">>)
                          ELSE getZoningInfo(<<"M","U","2">>),
              policies |-> Slice(getPoliciesByCategory(Str_economy), 2)]
        ELSE [withinBoundary |-> FALSE, landUse |-> Null, zoning |-> Null,
              policies |-> <<>>]

\* OCPDataHandler.getLocationInfo, with nothing else running during its await
getLocationInfo(lat, lng) == LocationInfo(lat, lng, isWithinNewWestminster(lat, lng))

NoLocating == [active |-> FALSE, lat |-> 0, lng |-> 0, withinBoundary |-> FALSE,
               geometry |-> NoGeometry]

NoLocated == [called |-> FALSE, lat |-> 0, lng |-> 0, geometry |-> NoGeometry,
              info |-> LocationInfo(0, 0, FALSE)]

(***************************************************************************)
(* The AI proxy (netlify function): validateRequest, and what aiSearch can  *)
(* get from it                                                             *)
(***************************************************************************)
\* data.question.length > 500
MaxQuestionLength == 500

\* data.question.length < 3
MinQuestionLength == 3

\* validateRequest without the suspiciousPatterns test
validateRequest_LengthOnly(question) ==
    IF question = <<>> THEN "Question is required and must be a string"
    ELSE IF Len(question) > MaxQuestionLength
         THEN "Question too long (max 500 characters)"
    ELSE IF Len(question) < MinQuestionLength
         THEN "Question too short (min 3 characters)"
    ELSE ""

\* validateRequest of the proxy, for a body whose question is a string:
\* the error it reports, or "" when the request is valid
validateRequest(question) ==
    IF question = <<>> THEN "Question is required and must be a string"
    ELSE IF Len(question) > MaxQuestionLength
         THEN "Question too long (max 500 characters)"
    ELSE IF Len(question) < MinQuestionLength
         THEN "Question too short (min 3 characters)"
    ELSE IF \/ \E w \in {<<"i","n","j","e","c","t">>, Str_script, Str_eval, <<"e","x","e","c">>} :
                  Includes(ToLowerCase(question), w)
            \/ Includes(ToLowerCase(question), <<"<","s","c","r","i","p","t",">">>)
            \/ Includes(ToLowerCase(question), <<"j","a","v","a","s","c","r","i","p","t",":">>)
         THEN "Invalid characters in question"
    ELSE ""

\* the 200 bodies that parse: the one the proxy's processAIResponse sends (the
\* answer text and the area codes extractMentionedAreas found in it), and an
\* object with none of its properties, {} (<<>> stands for undefined); shaped
\* tells whether the body has the properties of processAIResponse
AIBodies ==
    { [shaped |-> TRUE, answer |-> <<"RD and U and MH apply here">>,
       mentionedAreas |-> << <<"R","D">>, <<"U">>, <<"M","H">> >>,
       structuredResults |-> <<>>],
      [shaped |-> FALSE, answer |-> <<>>, mentionedAreas |-> <<>>,
       structuredResults |-> <<>>] }

\* how the fetch of aiSearch can settle for a question: the fetch rejects, the
\* proxy answers with an error status (400 exactly when validateRequest fails
\* and the request got that far), or 200 with a body that parses or does not
FetchOutcomes(question) ==
    { [kind |-> "reject", status |-> 0, shaped |-> FALSE, body |-> Null],
      [kind |-> "status", status |-> 429, shaped |-> FALSE, body |-> Null] }
    \cup
    (IF validateRequest(question) # ""
     THEN { [kind |-> "status", status |-> 400, shaped |-> FALSE, body |-> Null] }
     ELSE { [kind |-> "badjson", status |-> 200, shaped |-> FALSE, body |-> Null] }
          \cup { [kind |-> "ok", status |-> 200, shaped |-> b.shaped, body |-> b] :
                    b \in AIBodies })

(***************************************************************************)
(* OCPSearchEngine                                                         *)
(***************************************************************************)
\* this.maxHistoryItems
maxHistoryItems == 20

\* this.maxCacheItems
maxCacheItems == 50

\* Date.now(): the clock advances with every search() call
Now == nCalls

\* a SearchResult object; id tells the objects apart, "" and <<>> and 0 stand
\* for a property the object does not have
SearchResult(id, results, method, totalFound, query) ==
    [id |-> id, results |-> results, method |-> method, totalFound |-> totalFound,
     query |-> query, fallback |-> FALSE, aiError |-> "", aiResponse |-> <<>>,
     error |-> "", cached |-> 0]

\* the outcome of an async function: a value, or an exception
Returned(v) == [threw |-> FALSE, message |-> "", value |-> v]

Threw(message) == [threw |-> TRUE, message |-> message, value |-> Null]

\* `${result.type}_${result.code || result.name}`
DedupKey(result) == <<result.type, IF result.code # <<>> THEN result.code ELSE result.name>>

RECURSIVE removeDuplicates_KeepsLast(_)
\* removeDuplicates keeping the last item of each key
removeDuplicates_KeepsLast(results) ==
    IF results = <<>> THEN <<>>
    ELSE LET rest == removeDuplicates_KeepsLast(Tail(results))
         IN  IF \E i \in 2..Len(results) : DedupKey(results[i]) = DedupKey(results[1])
             THEN rest
             ELSE <<results[1]>> \o rest

RECURSIVE removeDuplicates(_)
\* OCPSearchEngine.removeDuplicates: an item stays if no earlier item has its key
removeDuplicates(results) ==
    IF results = <<>> THEN <<>>
    ELSE LET n    == Len(results)
             head == removeDuplicates(SubSeq(results, 1, n - 1))
         IN  IF \E i \in 1..(n - 1) : DedupKey(results[i]) = DedupKey(results[n])
             THEN head
             ELSE Append(head, results[n])

RECURSIVE CategoryItems(_, _)
\* the loop over the detected categories in localSearch
CategoryItems(categories, k) ==
    IF k > Len(categories) THEN <<>>
    ELSE LET found == Slice(searchByCategory(categories[k]), 2)
         IN  [i \in DOMAIN found |->
                 Item("land-use", found[i].code, found[i].name, found[i].description,
                      <<"Category: ">> \o categories[k])]
             \o CategoryItems(categories, k + 1)

\* step 1 of localSearch: keywordResults.slice(0, Math.floor(maxResults * 0.6))
KeywordItems(query, maxResults) == Slice(searchByKeywords(query), (maxResults * 6) \div 10)

\* step 3 of localSearch: heightResults.slice(0, 3) when parseHeightQuery matched
HeightItems(queryLower) ==
    LET heightQuery == parseHeightQuery(queryLower)
    IN  IF heightQuery.matched THEN Slice(searchByHeight(heightQuery), 3) ELSE <<>>

\* step 4 of localSearch: the item it unshifts for a location with a land use
LocationItems(location) ==
    LET info == getLocationInfo(location.lat, location.lng)
    IN  IF location.present /\ info.landUse # Null
        THEN << Item("location-specific", <<>>,
                     <<"Current Location: ">> \o info.landUse.name,
                     info.landUse.description,
                     <<"Your selected location">>) >>
        ELSE <<>>

\* localSearch pushing the location item instead of unshifting it
LocalCandidates_LocationLast(query, location, maxResults) ==
    KeywordItems(query, maxResults)
    \o CategoryItems(detectCategories(ToLowerCase(query)), 1)
    \o HeightItems(ToLowerCase(query))
    \o LocationItems(location)

\* the results array of localSearch before removeDuplicates
LocalCandidates(query, location, maxResults) ==
    LocationItems(location)
    \o KeywordItems(query, maxResults)
    \o CategoryItems(detectCategories(ToLowerCase(query)), 1)
    \o HeightItems(ToLowerCase(query))

\* OCPSearchEngine.localSearch; id names the object it returns
localSearch(query, location, maxResults, id) ==
    LET uniqueResults == removeDuplicates(LocalCandidates(query, location, maxResults))
    IN  IF parseHeightQuery(ToLowerCase(query)).matched /\ handler = HandlerJs
        THEN Threw("window.ocpDataHandler.searchByHeight is not a function")
        ELSE Returned(SearchResult(id, Slice(uniqueResults, maxResults), "local",
                                   Len(uniqueResults), query))

RECURSIVE MentionedItems(_, _)
\* the loop over aiResult.mentionedAreas in processAIResults
MentionedItems(areas, k) ==
    IF k > Len(areas) THEN <<>>
    ELSE (IF getLandUseInfo(areas[k]) # Null
          THEN << Item("ai-mentioned", areas[k], getLandUseInfo(areas[k]).name,
                       getLandUseInfo(areas[k]).description, <<"Mentioned by AI">>) >>
          ELSE <<>>)
         \o MentionedItems(areas, k + 1)

\* processAIResults pushing the answer item instead of unshifting it
processAIResults_AnswerLast(aiResult, maxResults) ==
    LET listed == Slice(aiResult.structuredResults, maxResults)
                  \o MentionedItems(aiResult.mentionedAreas, 1)
        withAnswer == IF aiResult.answer # <<>>
                      THEN listed
                           \o << Item("ai-answer", <<>>, <<"AI Assistant Response">>,
                                      aiResult.answer, <<"Natural language processing">>) >>
                      ELSE listed
    IN  Slice(withAnswer, maxResults)

\* OCPSearchEngine.processAIResults
processAIResults(aiResult, maxResults) ==
    LET listed == Slice(aiResult.structuredResults, maxResults)
                  \o MentionedItems(aiResult.mentionedAreas, 1)
        withAnswer == IF aiResult.answer # <<>>
                      THEN << Item("ai-answer", <<>>, <<"AI Assistant Response">>,
                                   aiResult.answer, <<"Natural language processing">>) >>
                           \o listed
                      ELSE listed
    IN  Slice(withAnswer, maxResults)

\* OCPSearchEngine.aiSearch, from the settled fetch on: the object it returns
\* or the exception it throws
aiSearchSettled(query, maxResults, outcome, id) ==
    CASE outcome.kind = "reject"  -> Threw("Failed to fetch")
      [] outcome.kind = "status"  ->
             Threw(CASE outcome.status = 400 -> "AI search failed: 400"
                     [] outcome.status = 429 -> "AI search failed: 429"
                     [] OTHER -> "AI search failed: 500")
      [] outcome.kind = "badjson" -> Threw("Unexpected token < in JSON at position 0")
      [] OTHER ->
             Returned([SearchResult(id, processAIResults(outcome.body, maxResults), "ai",
                                    0, query)
                       EXCEPT !.aiResponse = outcome.body.answer])

\* `${cleanQuery}_${location?.lat || ''}_${location?.lng || ''}`: the three
\* parts; <<>> is the empty string that || puts for a missing or zero coordinate
CacheKey(clean, location) ==
    <<clean,
      IF location.present /\ location.lat # 0 THEN <<location.lat>> ELSE <<>>,
      IF location.present /\ location.lng # 0 THEN <<location.lng>> ELSE <<>> >>

\* a lookup under a key made of the query alone
CacheHas_QueryOnly(cache, key) == \E i \in DOMAIN cache : cache[i].key = <<key[1]>>

\* this.searchCache.has(key)
CacheHas(cache, key) == \E i \in DOMAIN cache : cache[i].key = key

\* this.searchCache.get(key)
CacheGet(cache, key) == cache[CHOOSE i \in DOMAIN cache : cache[i].key = key].value

\* cacheResult evicting only once the size exceeds maxCacheItems
cacheResult_EvictsLate(cache, key, result) ==
    LET kept    == IF Len(cache) > maxCacheItems THEN Tail(cache) ELSE cache
        stamped == [result EXCEPT !.cached = Now]
    IN  IF \E i \in DOMAIN kept : kept[i].key = key
        THEN [i \in DOMAIN kept |->
                 IF kept[i].key = key THEN [key |-> key, value |-> stamped] ELSE kept[i]]
        ELSE Append(kept, [key |-> key, value |-> stamped])

\* OCPSearchEngine.cacheResult: the cache after it
cacheResult(cache, key, result) ==
    LET kept    == IF Len(cache) >= maxCacheItems THEN Tail(cache) ELSE cache
        stamped == [result EXCEPT !.cached = Now]
    IN  IF CacheHas(kept, key)
        THEN [i \in DOMAIN kept |->
                 IF kept[i].key = key THEN [key |-> key, value |-> stamped] ELSE kept[i]]
        ELSE Append(kept, [key |-> key, value |-> stamped])

\* addToHistory without the slice to maxHistoryItems
addToHistory_NoSlice(history, query, method) ==
    <<[query |-> query, method |-> method, timestamp |-> Now]>> \o history

\* OCPSearchEngine.addToHistory: the history after it
addToHistory(history, query, method) ==
    LET added == <<[query |-> query, method |-> method, timestamp |-> Now]>> \o history
    IN  IF Len(added) > maxHistoryItems THEN SubSeq(added, 1, maxHistoryItems) ELSE added

(***************************************************************************)
(* search(): one call, from one suspension to the next                     *)
(***************************************************************************)
\* a query argument: a string, or a value that is no string (chars unused)
StringQuery(chars) == [isString |-> TRUE, chars |-> chars]

NonStringQuery == [isString |-> FALSE, chars |-> <<>>]

NoOutcome == [threw |-> FALSE, message |-> "", value |-> Null]

\* how the call's fetch settled: kind "none" when it made no request
NoFetch == [kind |-> "none", status |-> 0, shaped |-> FALSE, body |-> Null]

\* a call of search(query, {location, useAI, maxResults}) entering the function
NewCall(id, query, location, useAI, maxResults) ==
    [id |-> id, query |-> query, location |-> location, useAI |-> useAI,
     maxResults |-> maxResults, pc |-> "start", clean |-> <<>>,
     key |-> <<>>, out |-> NoOutcome, aiError |-> "", fetched |-> NoFetch,
     aiRequested |-> FALSE, localRuns |-> 0, cacheRead |-> FALSE]

\* what is known of a settled call: how it settled, with what, and what it did;
\* lastHit is the key of the latest call answered from the cache
Settled(c, settled, path, result) ==
    [id |-> c.id, query |-> c.query, location |-> c.location, useAI |-> c.useAI,
     maxResults |-> c.maxResults, clean |-> c.clean, key |-> c.key,
     settled |-> settled, path |-> path, result |-> result, fetched |-> c.fetched,
     aiRequested |-> c.aiRequested, localRuns |-> c.localRuns, cacheRead |-> c.cacheRead,
     lastHit |-> IF path = "hit" THEN c.key ELSE ret.lastHit]

NoRet ==
    [id |-> 0, query |-> NonStringQuery, location |-> NoLocation, useAI |-> "auto",
     maxResults |-> 0, clean |-> <<>>, key |-> <<>>, settled |-> "none", path |-> "none",
     result |-> Null, fetched |-> NoFetch, aiRequested |-> FALSE, localRuns |-> 0,
     cacheRead |-> FALSE, lastHit |-> <<>>]

\* useAI === 'local' || (useAI === 'auto' && this.isSimpleQuery(cleanQuery))
TakesLocalPath(useAI, clean) == useAI = "local" \/ (useAI = "auto" /\ isSimpleQuery(clean))

\* search() lines 32-66, run without suspension: from the options to the first
\* await of the dispatch, or to a return or a throw before it
Advance(c) ==
    IF ~c.query.isString
    THEN [done |-> TRUE, call |-> c,
          ret |-> Settled(c, "rejected", "rejected", Null)]
    ELSE
    LET clean == cleanQuery(c.query.chars)
        key   == CacheKey(clean, c.location)
        c1    == [c EXCEPT !.clean = clean]
        c2    == [c1 EXCEPT !.key = key, !.cacheRead = TRUE]
    IN  IF clean = <<>>
        THEN [done |-> TRUE, call |-> c1,
              ret |-> Settled(c1, "resolved", "none",
                              [SearchResult(c.id, <<>>, "none", 0, <<>>)
                               EXCEPT !.error = "Empty query"])]
        ELSE IF CacheHas(searchCache, key)
        THEN [done |-> TRUE, call |-> c2,
              ret |-> Settled(c2, "resolved", "hit", CacheGet(searchCache, key))]
        ELSE IF TakesLocalPath(c.useAI, clean)
        THEN [done |-> FALSE, ret |-> NoRet,
              call |-> [c2 EXCEPT !.pc = "awaitLocal", !.localRuns = 1,
                                  !.out = localSearch(clean, c.location, c.maxResults, c.id)]]
        ELSE IF handler = HandlerJs
        THEN [done |-> FALSE, ret |-> NoRet,
              call |-> [c2 EXCEPT
                          !.pc = "awaitFallback", !.localRuns = 1,
                          !.aiError = "window.ocpDataHandler.prepareContextForAI is not a function",
                          !.out = localSearch(clean, c.location, c.maxResults, c.id)]]
        ELSE [done |-> FALSE, ret |-> NoRet,
              call |-> [c2 EXCEPT !.pc = "awaitFetch", !.aiRequested = TRUE]]

\* the effect of Advance on the suspended calls and on the last settled call
Run(c, before) ==
    LET a == Advance(c)
    IN  IF a.done
        THEN /\ ret' = a.ret
             /\ pending' = before
        ELSE /\ ret' = ret
             /\ pending' = before \cup {a.call}

\* search(query, options) is called; it runs to its first suspension
SearchCall(query, location, useAI, maxResults) ==
    /\ nCalls' = nCalls + 1
    /\ LET c == NewCall(nCalls + 1, query, location, useAI, maxResults)
       IN  IF isInitialized
           THEN Run(c, pending) /\ UNCHANGED isInitialized
           ELSE IF isLoaded
           THEN /\ isInitialized' = TRUE
                /\ pending' = pending \cup {[c EXCEPT !.pc = "resumeInit"]}
                /\ ret' = ret
           ELSE /\ pending' = pending \cup {[c EXCEPT !.pc = "awaitInit"]}
                /\ UNCHANGED <<isInitialized, ret>>
    /\ UNCHANGED <<loadVars, locateVars, heightCall, proxyVars>>
    /\ UNCHANGED <<handler, loadingPromise, isLoaded, data, boundaryGeometry,
                   searchCache, searchHistory, recorded>>

\* search() resumes after `await this.initialize()`
ResumeAfterInit(c) ==
    /\ c \in pending
    /\ c.pc = "resumeInit"
    /\ isInitialized' = TRUE
    /\ Run(c, pending \ {c})
    /\ UNCHANGED <<loadVars, locateVars, heightCall, proxyVars>>
    /\ UNCHANGED <<handler, loadingPromise, isLoaded, data, boundaryGeometry,
                   searchCache, searchHistory, nCalls, recorded>>

\* the fetch of aiSearch settles; aiSearch returns or throws, and on a throw
\* the catch block of search() starts the fallback local search
FetchSettles(c, outcome) ==
    /\ c \in pending
    /\ c.pc = "awaitFetch"
    /\ outcome \in FetchOutcomes(c.clean)
    /\ LET r == aiSearchSettled(c.clean, c.maxResults, outcome, c.id)
           next == IF r.threw
                   THEN [c EXCEPT !.pc = "awaitFallback", !.aiError = r.message,
                                  !.fetched = [kind |-> outcome.kind, status |-> outcome.status,
                                               shaped |-> outcome.shaped,
                                               body |-> outcome.body],
                                  !.localRuns = 1,
                                  !.out = localSearch(c.clean, c.location,
                                                      c.maxResults, c.id)]
                   ELSE [c EXCEPT !.pc = "awaitAI", !.out = r,
                                  !.fetched = [kind |-> outcome.kind, status |-> outcome.status,
                                               shaped |-> outcome.shaped,
                                               body |-> outcome.body]]
       IN  pending' = (pending \ {c}) \cup {next}
    /\ UNCHANGED <<loadVars, locateVars, heightCall, proxyVars>>
    /\ UNCHANGED <<handler, loadingPromise, isLoaded, data, boundaryGeometry,
                   isInitialized, searchCache, searchHistory, ret, nCalls, recorded>>

\* the searchResult of lines 55-65, once the awaited search returned
DispatchResult(c) ==
    IF c.pc = "awaitFallback"
    THEN [c.out.value EXCEPT !.fallback = TRUE, !.aiError = c.aiError]
    ELSE c.out.value

\* search() caching and recording the result of its outer catch as well
Finish_CachesErrors(c) ==
    /\ c \in pending
    /\ c.pc \in {"awaitLocal", "awaitAI", "awaitFallback"}
    /\ pending' = pending \ {c}
    /\ LET searchResult == IF c.out.threw
                           THEN [SearchResult(c.id, <<>>, "error", 0, <<>>)
                                 EXCEPT !.error = c.out.message]
                           ELSE DispatchResult(c)
           cache == cacheResult(searchCache, c.key, searchResult)
       IN  /\ searchCache' = cache
           /\ searchHistory' = addToHistory(searchHistory, c.clean, searchResult.method)
           /\ recorded' = <<[query |-> c.clean, method |-> searchResult.method,
                             timestamp |-> Now]>> \o recorded
           /\ ret' = Settled(c, "resolved",
                             CASE c.out.threw -> "error"
                               [] c.pc = "awaitLocal" -> "local"
                               [] c.pc = "awaitAI" -> "ai"
                               [] OTHER -> "fallback",
                             CacheGet(cache, c.key))
    /\ UNCHANGED <<loadVars, locateVars, heightCall, proxyVars>>
    /\ UNCHANGED <<handler, loadingPromise, isLoaded, data, boundaryGeometry,
                   isInitialized, nCalls>>

\* search() resumes after the awaited local or AI search: lines 68-74, or the
\* outer catch of lines 75-83 when the awaited search threw
Finish(c) ==
    /\ c \in pending
    /\ c.pc \in {"awaitLocal", "awaitAI", "awaitFallback"}
    /\ pending' = pending \ {c}
    /\ IF c.out.threw
       THEN /\ ret' = Settled(c, "resolved", "error",
                              [SearchResult(c.id, <<>>, "error", 0, <<>>)
                               EXCEPT !.error = c.out.message])
            /\ UNCHANGED <<searchCache, searchHistory, recorded>>
       ELSE LET searchResult == DispatchResult(c)
                cache == cacheResult(searchCache, c.key, searchResult)
            IN  /\ searchCache' = cache
                /\ searchHistory' = addToHistory(searchHistory, c.clean, searchResult.method)
                /\ recorded' = <<[query |-> c.clean, method |-> searchResult.method,
                                  timestamp |-> Now]>> \o recorded
                /\ ret' = Settled(c, "resolved",
                                  CASE c.pc = "awaitLocal" -> "local"
                                    [] c.pc = "awaitAI" -> "ai"
                                    [] OTHER -> "fallback",
                                  CacheGet(cache, c.key))
    /\ UNCHANGED <<loadVars, locateVars, heightCall, proxyVars>>
    /\ UNCHANGED <<handler, loadingPromise, isLoaded, data, boundaryGeometry,
                   isInitialized, nCalls>>

\* OCPSearchEngine.clearHistory
ClearHistory ==
    /\ searchHistory # <<>> \/ searchCache # <<>>
    /\ searchHistory' = <<>>
    /\ searchCache' = <<>>
    /\ recorded' = <<>>
    /\ UNCHANGED <<loadVars, locateVars, heightCall, proxyVars>>
    /\ UNCHANGED <<handler, loadingPromise, isLoaded, data, boundaryGeometry,
                   isInitialized, pending, ret, nCalls>>

(***************************************************************************)
(* The AI proxy (netlify function): exports.handler                        *)
(***************************************************************************)
\* windowMs = 60 * 60 * 1000, in minutes
windowMs == 60

\* maxRequests
maxRequests == 30

\* the literal members of allowedOrigins; process.env.URL and
\* process.env.DEPLOY_PRIME_URL are not set
allowedOrigins ==
    << <<"h","t","t","p",":","/","/","l","o","c","a","l","h","o","s","t",":","3","0","0","0">>,
       <<"h","t","t","p",":","/","/","l","o","c","a","l","h","o","s","t",":","8","0","8","0">>,
       <<"h","t","t","p",":","/","/","l","o","c","a","l","h","o","s","t",":","8","8","8","8">>,
       <<"h","t","t","p","s",":","/","/","l","o","c","a","l","h","o","s","t",":","3","0","0","0">> >>

\* origin.match(/^https?:\/\/localhost:\d+$/)
IsLocalhostOrigin(origin) ==
    \E prefix \in {<<"h","t","t","p",":","/","/","l","o","c","a","l","h","o","s","t",":">>,
                   <<"h","t","t","p","s",":","/","/","l","o","c","a","l","h","o","s","t",":">>} :
        /\ MatchAt(origin, 1, prefix)
        /\ Len(origin) > Len(prefix)
        /\ DigitsEnd(origin, Len(prefix) + 1) = Len(origin) + 1

\* isAllowedOrigin; <<>> is a header that is not there
isAllowedOrigin(origin) ==
    IF origin = <<>> THEN FALSE
    ELSE \/ origin \in Range(allowedOrigins)
         \/ Includes(origin, <<"-","-">>) /\ Includes(origin, <<".","n","e","t","l","i","f","y",".","a","p","p">>)
         \/ IsLocalhostOrigin(origin)

\* event.headers.origin || event.headers.referer
OriginOf(event) ==
    IF event.headers.origin # <<>> THEN event.headers.origin ELSE event.headers.referer

\* split(',')[0]
FirstField(s) ==
    LET commas == {i \in DOMAIN s : s[i] = ","}
    IN  IF commas = {} THEN s ELSE SubSeq(s, 1, SetMin(commas) - 1)

\* event.headers['x-forwarded-for']?.split(',')[0] || event.headers['x-real-ip'] || 'unknown'
ClientIP(event) ==
    IF FirstField(event.headers.xForwardedFor) # <<>>
    THEN FirstField(event.headers.xForwardedFor)
    ELSE IF event.headers.xRealIp # <<>> THEN event.headers.xRealIp
    ELSE <<"u","n","k","n","o","w","n">>

\* `ratelimit_${clientIP}`
RateLimitKey(clientIP) == <<"r","a","t","e","l","i","m","i","t","_">> \o clientIP

NoEntry == [present |-> FALSE, count |-> 0, resetTime |-> 0]

\* rateLimitStore.get(key)
StoreGet(store, key) ==
    IF \E e \in store : e.key = key
    THEN LET e == CHOOSE e \in store : e.key = key
         IN  [present |-> TRUE, count |-> e.count, resetTime |-> e.resetTime]
    ELSE NoEntry

\* rateLimitStore.set(key, {count, resetTime})
StoreSet(store, key, count, resetTime) ==
    {e \in store : e.key # key}
    \cup {[key |-> key, count |-> count, resetTime |-> resetTime]}

\* checkRateLimit with `>` where the code has `>=`
checkRateLimit_OneMore(store, clientIP, now) ==
    LET key     == RateLimitKey(clientIP)
        current == StoreGet(store, key)
    IN  IF ~current.present \/ now > current.resetTime
        THEN [allowed |-> TRUE, resetIn |-> 0,
              store |-> StoreSet(store, key, 1, now + windowMs)]
        ELSE IF current.count > maxRequests
        THEN [allowed |-> FALSE, resetIn |-> current.resetTime - now, store |-> store]
        ELSE [allowed |-> TRUE, resetIn |-> 0,
              store |-> StoreSet(store, key, current.count + 1, current.resetTime)]

\* checkRateLimit: the result, and the store it leaves
checkRateLimit(store, clientIP, now) ==
    LET key     == RateLimitKey(clientIP)
        current == StoreGet(store, key)
    IN  IF ~current.present
        THEN [allowed |-> TRUE, resetIn |-> 0,
              store |-> StoreSet(store, key, 1, now + windowMs)]
        ELSE IF now > current.resetTime
        THEN [allowed |-> TRUE, resetIn |-> 0,
              store |-> StoreSet(store, key, 1, now + windowMs)]
        ELSE IF current.count >= maxRequests
        THEN [allowed |-> FALSE, resetIn |-> current.resetTime - now, store |-> store]
        ELSE [allowed |-> TRUE, resetIn |-> 0,
              store |-> StoreSet(store, key, current.count + 1, current.resetTime)]

\* the value JSON.parse(event.body) gives: something that is no object (null,
\* a number), or an object whose question is absent, no string, or a string
RequestData(isObject, hasQuestion, isString, question) ==
    [isObject |-> isObject, hasQuestion |-> hasQuestion, isString |-> isString,
     question |-> question]

\* validateRequest(data): the error, or "" for { valid: true }
validateRequestData(requestData) ==
    IF ~requestData.isObject THEN "Request data must be an object"
    ELSE IF ~requestData.hasQuestion \/ ~requestData.isString
    THEN "Question is required and must be a string"
    ELSE validateRequest(requestData.question)

\* callGeminiAPI: whether it returns a text; it throws when the fetch rejects
\* or the response is not ok
callGeminiAPI(upstream) == upstream = "ok"

\* a response of the handler, with what the handler did on the way
Response(statusCode, retryAfter, store, checked, upstreamCalled) ==
    [statusCode |-> statusCode, retryAfter |-> retryAfter, store |-> store,
     checked |-> checked, upstreamCalled |-> upstreamCalled]

\* exports.handler with the body validated before the rate limit is checked
handlerResponse_ValidatesFirst(event, store, now, apiKey, upstream) ==
    IF event.httpMethod = "OPTIONS" THEN Response(200, -1, store, FALSE, FALSE)
    ELSE IF event.httpMethod # "POST" THEN Response(405, -1, store, FALSE, FALSE)
    ELSE IF ~isAllowedOrigin(OriginOf(event)) THEN Response(403, -1, store, FALSE, FALSE)
    ELSE IF ~event.body.parses THEN Response(400, -1, store, FALSE, FALSE)
    ELSE IF validateRequestData(event.body.data) # ""
    THEN Response(400, -1, store, FALSE, FALSE)
    ELSE
    LET rateLimitResult == checkRateLimit(store, ClientIP(event), now)
    IN  IF ~rateLimitResult.allowed
        THEN Response(429, rateLimitResult.resetIn * 60, store, TRUE, FALSE)
        ELSE IF ~apiKey
        THEN Response(500, -1, rateLimitResult.store, TRUE, FALSE)
        ELSE IF ~callGeminiAPI(upstream)
        THEN Response(500, -1, rateLimitResult.store, TRUE, TRUE)
        ELSE Response(200, -1, rateLimitResult.store, TRUE, TRUE)

\* exports.handler for an event, given the store, Date.now(), whether
\* process.env.GOOGLE_AI_API_KEY is set and how the upstream call would end;
\* retryAfter is in seconds, -1 without the header
handlerResponse(event, store, now, apiKey, upstream) ==
    IF event.httpMethod = "OPTIONS" THEN Response(200, -1, store, FALSE, FALSE)
    ELSE IF event.httpMethod # "POST" THEN Response(405, -1, store, FALSE, FALSE)
    ELSE IF ~isAllowedOrigin(OriginOf(event)) THEN Response(403, -1, store, FALSE, FALSE)
    ELSE
    LET rateLimitResult == checkRateLimit(store, ClientIP(event), now)
    IN  IF ~rateLimitResult.allowed
        THEN Response(429, rateLimitResult.resetIn * 60, store, TRUE, FALSE)
        ELSE IF ~event.body.parses
        THEN Response(400, -1, rateLimitResult.store, TRUE, FALSE)
        ELSE IF validateRequestData(event.body.data) # ""
        THEN Response(400, -1, rateLimitResult.store, TRUE, FALSE)
        ELSE IF ~apiKey
        THEN Response(500, -1, rateLimitResult.store, TRUE, FALSE)
        ELSE IF ~callGeminiAPI(upstream)
        THEN Response(500, -1, rateLimitResult.store, TRUE, TRUE)
        ELSE Response(200, -1, rateLimitResult.store, TRUE, TRUE)

\* an event of the function: method, headers (<<>> for a header that is not
\* there) and body
Event(httpMethod, origin, referer, xForwardedFor, xRealIp, body) ==
    [httpMethod |-> httpMethod,
     headers |-> [origin |-> origin, referer |-> referer,
                  xForwardedFor |-> xForwardedFor, xRealIp |-> xRealIp],
     body |-> body]

NoWindow == [open |-> FALSE, start |-> 0, seen |-> 0]

\* the window of a client, among the entries [client, start, seen]
WindowOf(ws, ip) ==
    IF \E w \in ws : w.client = ip
    THEN LET w == CHOOSE w \in ws : w.client = ip
         IN  [open |-> TRUE, start |-> w.start, seen |-> w.seen]
    ELSE NoWindow

\* the window a request of a client at time now falls in, and its place there:
\* a window opens with the client's first request and with its first request
\* later than windowMs after the window opened
WindowAfter(w, now) ==
    IF ~w.open \/ now > w.start + windowMs
    THEN [open |-> TRUE, start |-> now, seen |-> 1]
    ELSE [w EXCEPT !.seen = @ + 1]

NoResponse ==
    [event |-> Event("OPTIONS", <<>>, <<>>, <<>>, <<>>,
                     [parses |-> FALSE, data |-> RequestData(FALSE, FALSE, FALSE, <<>>)]),
     apiKey |-> FALSE, upstream |-> "ok",
     statusCode |-> 0, retryAfter |-> -1, checked |-> FALSE, upstreamCalled |-> FALSE]

\* the function is invoked with an event and answers it
HandleRequest(event, apiKey, upstream) ==
    LET r  == handlerResponse(event, rateLimitStore, clock, apiKey, upstream)
        ip == ClientIP(event)
    IN  /\ rateLimitStore' = r.store
        /\ response' = [event |-> event, apiKey |-> apiKey, upstream |-> upstream,
                        statusCode |-> r.statusCode, retryAfter |-> r.retryAfter,
                        checked |-> r.checked, upstreamCalled |-> r.upstreamCalled]
        /\ windows' = IF r.checked
                      THEN LET w == WindowAfter(WindowOf(windows, ip), clock)
                           IN  {v \in windows : v.client # ip}
                               \cup {[client |-> ip, start |-> w.start, seen |-> w.seen]}
                      ELSE windows
        /\ UNCHANGED <<searchVars, loadVars, locateVars, heightCall, clock>>

\* time passes
Tick(minutes) ==
    /\ clock' = clock + minutes
    /\ UNCHANGED <<searchVars, loadVars, locateVars, heightCall, rateLimitStore,
                   windows, response>>

\* the hourly setInterval callback of lines 17-24
CleanUp ==
    /\ rateLimitStore' = {e \in rateLimitStore : ~(e.resetTime < clock - windowMs)}
    /\ UNCHANGED <<searchVars, loadVars, locateVars, heightCall, clock, windows, response>>

(***************************************************************************)
(* Loading the data                                                        *)
(***************************************************************************)
\* a test that takes a rejected promise for none
HasLoadingPromise_NotRejected(p) == p \notin {"null", "rejected"}

\* `if (this.loadingPromise)`: a promise is truthy, however it settled
HasLoadingPromise(p) == p # "null"

\* OCPDataHandler.initialize: the caller gets the promise of the load in
\* progress or settled, or of a load that this call starts; loadAllData runs
\* to its first await and has issued its fetches by then
Initialize ==
    /\ IF HasLoadingPromise(loadingPromise)
       THEN /\ callers' = Append(callers, Len(loads))
            /\ UNCHANGED <<loadingPromise, loads, loadPc>>
       ELSE /\ loads' = Append(loads, "pending")
            /\ callers' = Append(callers, Len(loads) + 1)
            /\ loadingPromise' = "pending"
            /\ loadPc' = "fetching"
    /\ UNCHANGED <<handler, isLoaded, data, boundaryGeometry, isInitialized,
                   searchCache, searchHistory, pending, ret, nCalls, recorded>>
    /\ UNCHANGED <<dispatched, locateVars, heightCall, proxyVars>>

\* the files loadAllData parses, in its order
DataFiles ==
    IF handler = HandlerJs
    THEN <<"landUse", "zoning", "policies", "cityBoundary">>
    ELSE <<"landUse", "zoning", "policies">>

\* a parsed City_Boundary.geojson: whether it has a features member, and the
\* rings of its features of type Polygon
GeoJson(hasFeatures, rings) == [hasFeatures |-> hasFeatures, rings |-> rings]

CityBoundary == GeoJson(TRUE, BoundaryRings)

\* the city's file, a file with MultiPolygon features only, a file without features
BoundaryFiles == {CityBoundary, GeoJson(TRUE, <<>>), GeoJson(FALSE, <<>>)}

\* OCPDataHandler.processBoundaryGeometry (src/js/data-handler.js)
processBoundaryGeometry(cityBoundary) ==
    IF ~cityBoundary.hasFeatures THEN boundaryGeometry
    ELSE [set |-> TRUE, rings |-> cityBoundary.rings]

\* the promise of the running loadAllData settles
LoadSettles(how) ==
    /\ loadingPromise' = how
    /\ loads' = [loads EXCEPT ![Len(loads)] = how]

\* loadAllData after its last parse: processBoundaryGeometry, isLoaded, the
\* event, return.  Dispatching 'ocpDataLoaded' runs the listener of search.js
\* line 393 and releases the waiting searches
Completes(cityBoundary) ==
    /\ boundaryGeometry' = IF handler = HandlerJs
                           THEN processBoundaryGeometry(cityBoundary)
                           ELSE boundaryGeometry
    /\ isLoaded' = TRUE
    /\ dispatched' = dispatched + 1
    /\ isInitialized' = TRUE
    /\ pending' = {IF c.pc = "awaitInit" THEN [c EXCEPT !.pc = "resumeInit"] ELSE c :
                      c \in pending}
    /\ loadPc' = "done"
    /\ LoadSettles("resolved")

\* loadAllData: every response is ok and every file parses, with no other code
\* of the page running in between
LoadSucceeds ==
    /\ loadPc = "fetching"
    /\ data' = [landUse |-> TRUE, zoning |-> TRUE, policies |-> TRUE,
                cityBoundary |-> (handler = HandlerJs)]
    /\ Completes(CityBoundary)
    /\ UNCHANGED <<handler, searchCache, searchHistory, ret, nCalls, recorded>>
    /\ UNCHANGED <<callers, locateVars, heightCall, proxyVars>>

\* loadAllData: a fetch rejects or a response is not ok; the promise rejects
LoadFails ==
    /\ loadPc = "fetching"
    /\ loadPc' = "failed"
    /\ LoadSettles("rejected")
    /\ UNCHANGED <<handler, isLoaded, data, boundaryGeometry, isInitialized,
                   searchCache, searchHistory, pending, ret, nCalls, recorded>>
    /\ UNCHANGED <<callers, dispatched, locateVars, heightCall, proxyVars>>

\* loadAllData: Promise.all resolves and every response is ok; the first
\* response.json() is awaited
FetchesSucceed ==
    /\ loadPc = "fetching"
    /\ loadPc' = DataFiles[1]
    /\ UNCHANGED <<searchVars, loads, callers, dispatched, locateVars, heightCall,
                   proxyVars>>

\* the position of a file in DataFiles
FileIndex(file) == CHOOSE i \in DOMAIN DataFiles : DataFiles[i] = file

\* loadAllData: the awaited response.json() resolves and the file is stored;
\* the next file is awaited, or the load completes
ParseSucceeds(cityBoundary) ==
    /\ loadPc \in Range(DataFiles)
    /\ data' = [data EXCEPT ![loadPc] = TRUE]
    /\ IF FileIndex(loadPc) = Len(DataFiles)
       THEN Completes(cityBoundary)
       ELSE /\ loadPc' = DataFiles[FileIndex(loadPc) + 1]
            /\ UNCHANGED <<loadingPromise, loads, isLoaded, boundaryGeometry, dispatched,
                           isInitialized, pending>>
    /\ UNCHANGED <<handler, searchCache, searchHistory, ret, nCalls, recorded>>
    /\ UNCHANGED <<callers, locateVars, heightCall, proxyVars>>

\* loadAllData: the awaited response.json() rejects; the files parsed before
\* it stay in this.data
ParseFails ==
    /\ loadPc \in Range(DataFiles)
    /\ loadPc' = "failed"
    /\ LoadSettles("rejected")
    /\ UNCHANGED <<handler, isLoaded, data, boundaryGeometry, isInitialized,
                   searchCache, searchHistory, pending, ret, nCalls, recorded>>
    /\ UNCHANGED <<callers, dispatched, locateVars, heightCall, proxyVars>>

(***************************************************************************)
(* Looking up a location                                                   *)
(***************************************************************************)
\* getLocationInfo(lat, lng) is called: isWithinNewWestminster runs on the
\* geometry of the moment and the call is suspended at its await
GetLocationInfoCall(lat, lng) ==
    /\ ~locating.active
    /\ locating' = [active |-> TRUE, lat |-> lat, lng |-> lng,
                    withinBoundary |-> isWithinNewWestminster(lat, lng),
                    geometry |-> boundaryGeometry]
    /\ UNCHANGED <<searchVars, loadVars, located, heightCall, proxyVars>>

\* getLocationInfo resumes, reads the accessors and returns
GetLocationInfoReturns ==
    /\ locating.active
    /\ located' = [called |-> TRUE, lat |-> locating.lat, lng |-> locating.lng,
                   geometry |-> locating.geometry,
                   info |-> LocationInfo(locating.lat, locating.lng,
                                         locating.withinBoundary)]
    /\ locating' = NoLocating
    /\ UNCHANGED <<searchVars, loadVars, heightCall, proxyVars>>

(***************************************************************************)
(* Parsing a height query                                                  *)
(***************************************************************************)
\* parseHeightQuery(queryLower) is called and returns
ParseHeightQuery(queryLower) ==
    /\ heightCall' = [called |-> TRUE, queryLower |-> queryLower,
                       result |-> parseHeightQuery(queryLower)]
    /\ UNCHANGED <<searchVars, loadVars, locateVars, proxyVars>>

(***************************************************************************)
(* The specification                                                       *)
(***************************************************************************)
MaxCalls == 2

MaxPending == 2

Init ==
    /\ handler \in {HandlerJs, HandlerAlt}
    /\ loadingPromise = "null"
    /\ isLoaded = FALSE
    /\ data = NoData
    /\ boundaryGeometry = NoGeometry
    /\ isInitialized = FALSE
    /\ searchCache = <<>>
    /\ searchHistory = <<>>
    /\ pending = {}
    /\ ret = NoRet
    /\ nCalls = 0
    /\ recorded = <<>>
    /\ loads = <<>>
    /\ callers = <<>>
    /\ loadPc = "idle"
    /\ dispatched = 0
    /\ locating = NoLocating
    /\ located = NoLocated
    /\ heightCall = NoHeightCall
    /\ rateLimitStore = {}
    /\ clock = 0
    /\ windows = {}
    /\ response = NoResponse

Request(query, location, useAI, maxResults) ==
    [query |-> query, location |-> location, useAI |-> useAI, maxResults |-> maxResults]

\* a point of the city
CityPoint == Location(49201, -122911)

Q_Homes == StringQuery(<<"H","o","m","e","s">>)

Q_Zoning == StringQuery(Str_zoning)

Q_Punctuation == StringQuery(<<"!">>)

Q_Blank == StringQuery(<<" "," ">>)

Q_Height == StringQuery(Str_over \o <<"9"," ">> \o Str_floor \o <<"s">>)

Q_Script == StringQuery(Str_script)

\* the search() calls the page makes: a natural-language query under every
\* mode and two result limits, a simple query, a height query, queries the
\* proxy refuses, blank and punctuation-only input, and a query that is no string
Requests ==
    { Request(Q_Homes, NoLocation, m, n) : m \in {"auto", "local", "ai"}, n \in {1, 10} }
    \cup
    { Request(Q_Homes, CityPoint, "auto", 10),
      Request(Q_Zoning, NoLocation, "auto", 10),
      Request(Q_Height, CityPoint, "ai", 10),
      Request(Q_Height, NoLocation, "local", 10),
      Request(Q_Script, NoLocation, "auto", 10),
      Request(Q_Punctuation, NoLocation, "auto", 10),
      Request(Q_Blank, NoLocation, "auto", 10),
      Request(NonStringQuery, NoLocation, "auto", 10) }

Next ==
    \/ loadingPromise = "null" /\ Initialize
    \/ LoadSucceeds
    \/ LoadFails
    \/ \E r \in Requests :
          /\ nCalls < MaxCalls
          /\ Cardinality(pending) < MaxPending
          /\ SearchCall(r.query, r.location, r.useAI, r.maxResults)
    \/ \E c \in pending : ResumeAfterInit(c)
    \/ \E c \in pending : \E o \in FetchOutcomes(c.clean) : FetchSettles(c, o)
    \/ \E c \in pending : Finish(c)
    \/ ClearHistory

Spec == Init /\ [][Next]_vars

(***************************************************************************)
(* Repeating a query: the same text under another mode, with another       *)
(* result limit and at another location, next to a query of its own        *)
(***************************************************************************)
RepeatRequests ==
    { Request(Q_Homes, NoLocation, "ai", 10),
      Request(Q_Homes, NoLocation, "local", 1),
      Request(Q_Homes, CityPoint, "auto", 10),
      Request(Q_Zoning, NoLocation, "auto", 10) }

RepeatNext ==
    \/ loadingPromise = "null" /\ Initialize
    \/ LoadSucceeds
    \/ LoadFails
    \/ \E r \in RepeatRequests :
          /\ nCalls < MaxCalls
          /\ Cardinality(pending) < MaxPending
          /\ SearchCall(r.query, r.location, r.useAI, r.maxResults)
    \/ \E c \in pending : ResumeAfterInit(c)
    \/ \E c \in pending : \E o \in FetchOutcomes(c.clean) : FetchSettles(c, o)
    \/ \E c \in pending : Finish(c)
    \/ ClearHistory

SpecRepeat == Init /\ [][RepeatNext]_vars

(***************************************************************************)
(* Zone codes as queries, next to a category word                          *)
(***************************************************************************)
Q_RS1 == StringQuery(<<"R","S","1">>)

Q_MU2 == StringQuery(<<"M","U","2">>)

Q_Residential == StringQuery(Str_residential)

ZoneRequests ==
    { Request(Q_RS1, NoLocation, "auto", 10),
      Request(Q_MU2, CityPoint, "auto", 10),
      Request(Q_RS1, NoLocation, "local", 10),
      Request(Q_Residential, NoLocation, "auto", 10) }

ZoneNext ==
    \/ loadingPromise = "null" /\ Initialize
    \/ LoadSucceeds
    \/ LoadFails
    \/ \E r \in ZoneRequests :
          /\ nCalls < MaxCalls
          /\ Cardinality(pending) < MaxPending
          /\ SearchCall(r.query, r.location, r.useAI, r.maxResults)
    \/ \E c \in pending : ResumeAfterInit(c)
    \/ \E c \in pending : \E o \in FetchOutcomes(c.clean) : FetchSettles(c, o)
    \/ \E c \in pending : Finish(c)
    \/ ClearHistory

SpecZone == Init /\ [][ZoneNext]_vars

(***************************************************************************)
(* Local searches: a query with keywords, a category word and a height     *)
(* phrase, at a point of the city, outside it and without a location       *)
(***************************************************************************)
Q_HomesTall ==
    StringQuery(<<"h","o","m","e","s"," ">> \o Str_over \o <<"9"," ">> \o Str_floor \o <<"s">>)

\* a point outside the fallback bounds and outside every ring
OutsidePoint == Location(49000, -122000)

LocalRequests ==
    { Request(Q_HomesTall, CityPoint, "local", n) : n \in {1, 10} }
    \cup
    { Request(Q_HomesTall, NoLocation, "local", 10),
      Request(Q_Homes, OutsidePoint, "local", 10),
      Request(Q_Homes, CityPoint, "ai", 10) }

LocalNext ==
    \/ loadingPromise = "null" /\ Initialize
    \/ LoadSucceeds
    \/ LoadFails
    \/ \E r \in LocalRequests :
          /\ nCalls < MaxCalls
          /\ Cardinality(pending) < MaxPending
          /\ SearchCall(r.query, r.location, r.useAI, r.maxResults)
    \/ \E c \in pending : ResumeAfterInit(c)
    \/ \E c \in pending : \E o \in FetchOutcomes(c.clean) : FetchSettles(c, o)
    \/ \E c \in pending : Finish(c)
    \/ ClearHistory

SpecLocal == Init /\ [][LocalNext]_vars

(***************************************************************************)
(* One query at several places: no location, a point of the city, points   *)
(* on the equator and on the prime meridian, and the point (0, 0)          *)
(***************************************************************************)
Places ==
    { NoLocation, CityPoint, Location(49201, 0), Location(0, -122911), Location(0, 0) }

PlaceRequests ==
    { Request(Q_Homes, l, "local", 10) : l \in Places \ {CityPoint} }
    \cup { Request(Q_Homes, CityPoint, "auto", 10) }

PlaceNext ==
    \/ loadingPromise = "null" /\ Initialize
    \/ LoadSucceeds
    \/ LoadFails
    \/ \E r \in PlaceRequests :
          /\ nCalls < MaxCalls
          /\ Cardinality(pending) < MaxPending
          /\ SearchCall(r.query, r.location, r.useAI, r.maxResults)
    \/ \E c \in pending : ResumeAfterInit(c)
    \/ \E c \in pending : \E o \in FetchOutcomes(c.clean) : FetchSettles(c, o)
    \/ \E c \in pending : Finish(c)
    \/ ClearHistory

SpecPlace == Init /\ [][PlaceNext]_vars

(***************************************************************************)
(* Progress: the page's load settles, awaited promises resume, and every   *)
(* request to the proxy settles                                            *)
(***************************************************************************)
LiveRequests ==
    { Request(Q_Homes, NoLocation, "ai", 10),
      Request(Q_Zoning, NoLocation, "auto", 10) }

StartLoad == loadingPromise = "null" /\ Initialize

LoadEnds == LoadSucceeds \/ LoadFails

Resumes == \E c \in pending : ResumeAfterInit(c)

ProxyAnswers == \E c \in pending : \E o \in FetchOutcomes(c.clean) : FetchSettles(c, o)

Finishes == \E c \in pending : Finish(c)

LiveNext ==
    \/ StartLoad
    \/ LoadEnds
    \/ \E r \in LiveRequests :
          /\ nCalls < MaxCalls
          /\ Cardinality(pending) < MaxPending
          /\ SearchCall(r.query, r.location, r.useAI, r.maxResults)
    \/ Resumes
    \/ ProxyAnswers
    \/ Finishes
    \/ ClearHistory

\* a call can resume after `await this.initialize()` exactly while it is at
\* that await with the promise resolved
AwaitsResume == \E c \in pending : c.pc = "resumeInit"

\* the proxy can answer a call exactly while the call is at its fetch
AwaitsProxy == \E c \in pending : c.pc = "awaitFetch"

\* the load starts and settles, a settled await resumes, and every request
\* to the proxy settles.  Resumes and ProxyAnswers are enabled exactly in the
\* states of AwaitsResume and AwaitsProxy and end them for the call that
\* takes the step, so their weak fairness is that these states do not last
\* forever
SpecLive ==
    /\ Init
    /\ [][LiveNext]_vars
    /\ WF_vars(StartLoad)
    /\ WF_vars(LoadEnds)
    /\ WF_vars(Finishes)
    /\ []<>~AwaitsResume
    /\ []<>~AwaitsProxy

(***************************************************************************)
(* Answers of the AI proxy under several result limits                     *)
(***************************************************************************)
AnswerRequests == { Request(Q_Homes, NoLocation, "ai", n) : n \in {1, 2, 10} }

AnswerNext ==
    \/ loadingPromise = "null" /\ Initialize
    \/ LoadSucceeds
    \/ LoadFails
    \/ \E r \in AnswerRequests :
          /\ nCalls < MaxCalls
          /\ Cardinality(pending) < MaxPending
          /\ SearchCall(r.query, r.location, r.useAI, r.maxResults)
    \/ \E c \in pending : ResumeAfterInit(c)
    \/ \E c \in pending : \E o \in FetchOutcomes(c.clean) : FetchSettles(c, o)
    \/ \E c \in pending : Finish(c)
    \/ ClearHistory

SpecAnswer == Init /\ [][AnswerNext]_vars

(***************************************************************************)
(* Searches that end in the outer catch: a height phrase, for which        *)
(* localSearch needs searchByHeight, next to a query of its own            *)
(***************************************************************************)
ErrorRequests ==
    { Request(Q_Height, NoLocation, "local", 10),
      Request(Q_Height, CityPoint, "ai", 10),
      Request(Q_Homes, NoLocation, "local", 10) }

ErrorNext ==
    \/ loadingPromise = "null" /\ Initialize
    \/ LoadSucceeds
    \/ LoadFails
    \/ \E r \in ErrorRequests :
          /\ nCalls < MaxCalls
          /\ Cardinality(pending) < MaxPending
          /\ SearchCall(r.query, r.location, r.useAI, r.maxResults)
    \/ \E c \in pending : ResumeAfterInit(c)
    \/ \E c \in pending : \E o \in FetchOutcomes(c.clean) : FetchSettles(c, o)
    \/ \E c \in pending : Finish(c)
    \/ ClearHistory

SpecError == Init /\ [][ErrorNext]_vars

(***************************************************************************)
(* Filling the cache and the history of an initialized engine: the page    *)
(* awaits each search before it starts the next, one fresh query after the *)
(* other, and once the cache is full also repeats of its oldest and newest *)
(* entry                                                                   *)
(***************************************************************************)
MaxFillCalls == 54

DigitCharOf == <<"0","1","2","3","4","5","6","7","8","9">>

RECURSIVE Decimal(_)
\* the decimal digits of a natural number
Decimal(n) ==
    IF n < 10 THEN <<DigitCharOf[n + 1]>>
    ELSE Decimal(n \div 10) \o <<DigitCharOf[(n % 10) + 1]>>

\* the n-th fresh query: "park n"
FillQuery(n) == StringQuery(Str_park \o <<" ">> \o Decimal(n))

\* the page may start one more search
MayStartFill ==
    /\ isInitialized
    /\ nCalls < MaxFillCalls
    /\ pending = {}

FillNext ==
    \/ loadingPromise = "null" /\ Initialize
    \/ LoadSucceeds
    \/ /\ MayStartFill
       /\ \E q \in {FillQuery(Len(recorded) + Cardinality(pending) + 1)} :
             SearchCall(q, NoLocation, "local", 10)
    \/ /\ MayStartFill
       /\ Len(searchCache) = maxCacheItems
       /\ \E q \in {StringQuery(searchCache[i].value.query) : i \in {1, Len(searchCache)}} :
             SearchCall(q, NoLocation, "local", 10)
    \/ \E c \in pending : Finish(c)

SpecFill == Init /\ [][FillNext]_vars

(***************************************************************************)
(* Filling the cache, with a search repeated while it is still under way   *)
(* once the cache is nearly full                                           *)
(***************************************************************************)
MaxOverlapCalls == 53

\* the page may repeat the search that is under way
MayOverlap ==
    /\ isInitialized
    /\ nCalls < MaxOverlapCalls
    /\ Cardinality(pending) = 1
    /\ Len(searchCache) >= maxCacheItems - 1

OverlapNext ==
    \/ loadingPromise = "null" /\ Initialize
    \/ LoadSucceeds
    \/ /\ isInitialized
       /\ nCalls < MaxOverlapCalls
       /\ pending = {}
       /\ \E q \in {FillQuery(nCalls + 1)} : SearchCall(q, NoLocation, "local", 10)
    \/ /\ MayOverlap
       /\ \E c \in pending : SearchCall(c.query, c.location, c.useAI, c.maxResults)
    \/ \E c \in pending : Finish(c)

SpecOverlap == Init /\ [][OverlapNext]_vars

(***************************************************************************)
(* Queries the proxy refuses                                               *)
(***************************************************************************)
MaxMalformedCalls == 1

MaxMalformedPending == 1

\* one character more than the proxy accepts
Q_Long == StringQuery([i \in 1..(MaxQuestionLength + 1) |-> "a"])

Q_Eval == StringQuery(<<"E","v","a","l","u","a","t","e">>)

\* a height query with a pattern the proxy rejects: "script over 9 floors"
Q_ScriptHeight == StringQuery(Str_script \o <<" ">> \o Q_Height.chars)

MalformedRequests ==
    { Request(q, NoLocation, m, 10) : q \in {Q_Long, Q_Script, Q_Eval},
                                      m \in {"auto", "local", "ai"} }
    \cup { Request(Q_Script, CityPoint, "ai", 1),
           Request(Q_ScriptHeight, NoLocation, "ai", 10) }

MalformedNext ==
    \/ loadingPromise = "null" /\ Initialize
    \/ LoadSucceeds
    \/ LoadFails
    \/ \E r \in MalformedRequests :
          /\ nCalls < MaxMalformedCalls
          /\ Cardinality(pending) < MaxMalformedPending
          /\ SearchCall(r.query, r.location, r.useAI, r.maxResults)
    \/ \E c \in pending : ResumeAfterInit(c)
    \/ \E c \in pending : \E o \in FetchOutcomes(c.clean) : FetchSettles(c, o)
    \/ \E c \in pending : Finish(c)
    \/ ClearHistory

SpecMalformed == Init /\ [][MalformedNext]_vars

(***************************************************************************)
(* Height queries: a bound word, a number and a unit, written with and     *)
(* without a space, and ranges                                             *)
(***************************************************************************)
MaxHeightNumber == 20

UnitTexts ==
    { <<"m">>, <<" ","m">>, <<"m","e","t","r","e","s">>, <<" ","m","e","t","e","r">>,
      <<" ","s","t","o","r","e","y","s">>, <<" ","f","l","o","o","r","s">> }

\* the unit words of the three patterns, singular and plural
UnitWords ==
    { Str_storey, Str_storey \o <<"s">>, Str_floor, Str_floor \o <<"s">>,
      <<"m","e","t","r","e">>, <<"m","e","t","r","e","s">>,
      <<"m","e","t","e","r">>, <<"m","e","t","e","r","s">> }

\* queries with a number but without a bound word or without a unit
PlainHeightQueries ==
    { <<"1","0"," ","s","t","o","r","e","y","s">>,
      <<"o","v","e","r"," ","t","e","n"," ","f","l","o","o","r","s">>,
      <<"t","a","l","l"," ","t","o","w","e","r","s">> }

HeightQueries ==
    { w \o Decimal(n) \o u : w \in {Str_over, Str_under}, n \in 0..MaxHeightNumber,
                             u \in UnitTexts \cup {<<" ">> \o x : x \in UnitWords} }
    \cup
    { Str_between \o Decimal(n) \o Str_and \o Decimal(n + 10) \o u :
          n \in {5}, u \in UnitTexts }
    \cup
    { Str_between \o Decimal(n) \o Str_and \o Decimal(m) \o <<" ">> \o x :
          n \in {0, 7}, m \in {3, MaxHeightNumber}, x \in UnitWords }
    \cup PlainHeightQueries

HeightNext == \E q \in HeightQueries : ParseHeightQuery(q)

SpecHeight == Init /\ [][HeightNext]_vars

(***************************************************************************)
(* Requests to the proxy                                                   *)
(***************************************************************************)
\* header values; the first address of "1.1,2.2" is "1.1"
LocalOrigin == <<"h","t","t","p",":","/","/","l","o","c","a","l","h","o","s","t",":","3","0","0","0">>

VitePort == <<"h","t","t","p",":","/","/","l","o","c","a","l","h","o","s","t",":","5","1","7","3">>

PreviewPage == <<"h","t","t","p","s",":","/","/","p","r","-","1","-","-","o","c","p",".","n","e","t","l","i","f","y",".","a","p","p","/","m","a","p">>

ForeignOrigin == <<"h","t","t","p","s",":","/","/","e","x","a","m","p","l","e",".","c","o","m">>

Forwarded == <<"1",".","1",",","2",".","2">>

FirstAddress == <<"1",".","1">>

OtherAddress == <<"3",".","3">>

\* headers(origin, referer, x-forwarded-for, x-real-ip)
Headers(origin, referer, xForwardedFor, xRealIp) ==
    [origin |-> origin, referer |-> referer, xForwardedFor |-> xForwardedFor,
     xRealIp |-> xRealIp]

\* a listed origin; a localhost port not in the list; no Origin but the
\* Referer of a deploy preview; a foreign origin; neither header
HeaderSets ==
    { Headers(LocalOrigin, <<>>, Forwarded, <<>>),
      Headers(VitePort, <<>>, <<>>, FirstAddress),
      Headers(<<>>, PreviewPage, FirstAddress, OtherAddress),
      Headers(ForeignOrigin, PreviewPage, FirstAddress, <<>>),
      Headers(<<>>, <<>>, FirstAddress, <<>>) }

\* the requests of every kind a client makes before its burst of valid ones
MaxProbes == 2

Parsed(requestData) == [parses |-> TRUE, data |-> requestData]

\* a body that is no JSON
NoJson == [parses |-> FALSE, data |-> RequestData(FALSE, FALSE, FALSE, <<>>)]

\* a body that is no JSON; {}; {question: 7}; and questions that are too
\* short, refused for a pattern, too long, and valid
Bodies ==
    { NoJson,
      Parsed(RequestData(TRUE, FALSE, FALSE, <<>>)),
      Parsed(RequestData(TRUE, TRUE, FALSE, <<>>)),
      Parsed(RequestData(TRUE, TRUE, TRUE, <<"h","i">>)),
      Parsed(RequestData(TRUE, TRUE, TRUE, Str_script)),
      Parsed(RequestData(TRUE, TRUE, TRUE, Q_Long.chars)),
      Parsed(RequestData(TRUE, TRUE, TRUE, Str_zoning)) }

ProxyEvents ==
    { [httpMethod |-> "POST", headers |-> h, body |-> b] : h \in HeaderSets, b \in Bodies }
    \cup
    { [httpMethod |-> m, headers |-> h, body |-> b] :
          m \in {"GET", "OPTIONS"}, h \in HeaderSets,
          b \in {NoJson, Parsed(RequestData(TRUE, TRUE, TRUE, Str_zoning))} }

\* how the upstream call ends: a text, a status that is not ok, a rejected fetch
Upstreams == {"ok", "status", "reject"}

\* a valid request of a client
PlainEvent(xForwardedFor) ==
    Event("POST", LocalOrigin, <<>>, xForwardedFor, <<>>,
          Parsed(RequestData(TRUE, TRUE, TRUE, Str_zoning)))

\* requests refused beyond a client's quota within one window
MaxRefused == 2

\* the client of the event has not been refused MaxRefused times in a row
MayRequest(event) ==
    LET w == WindowOf(windows, ClientIP(event))
    IN  w.seen < maxRequests + MaxRefused \/ clock > w.start + windowMs

\* one client, with no time passing: requests of every kind at the start of
\* its window and when its quota is used up, and valid requests in between
ProxyNext ==
    \/ \E event \in ProxyEvents, apiKey \in BOOLEAN, upstream \in Upstreams :
          /\ MayRequest(event)
          /\ WindowOf(windows, ClientIP(event)).seen \notin MaxProbes..(maxRequests - 1)
          /\ apiKey \/ upstream = "ok"
          /\ HandleRequest(event, apiKey, upstream)
    \/ /\ MayRequest(PlainEvent(Forwarded))
       /\ HandleRequest(PlainEvent(Forwarded), TRUE, "ok")

SpecProxy == Init /\ [][ProxyNext]_vars

MaxClock == 121

\* requests of a client that does not let up
MaxOtherRequests == 1

\* valid requests of a client and requests without an address, while time
\* passes and the store is cleaned up
QuotaNext ==
    \/ /\ MayRequest(PlainEvent(Forwarded))
       /\ HandleRequest(PlainEvent(Forwarded), TRUE, "ok")
    \/ \E event \in {PlainEvent(<<>>)} :
          /\ WindowOf(windows, ClientIP(event)).seen < MaxOtherRequests
          /\ HandleRequest(event, TRUE, "ok")
    \/ \E event \in {Event("POST", ForeignOrigin, <<>>, Forwarded, <<>>, PlainEvent(<<>>).body)} :
          HandleRequest(event, TRUE, "ok")
    \/ \E minutes \in {windowMs, windowMs + 1} :
          /\ clock + minutes <= MaxClock
          /\ Tick(minutes)
    \/ CleanUp

SpecQuota == Init /\ [][QuotaNext]_vars

(***************************************************************************)
(* The data handler: initialize() called several times while the files     *)
(* load, and locations looked up in every state of the load                *)
(***************************************************************************)
MaxInitCalls == 3

\* <<lat, lng>> in thousandths of a degree: in the hole of the main ring, in
\* the main ring north and middle, in the enclave south of the fallback
\* bounds, in the bounds but in no ring, on two corners of the bounds, and
\* just outside the bounds on each side
ProbePoints ==
    { <<49201, -122911>>, <<49215, -122900>>, <<49207, -122900>>,
      <<49183, -122876>>, <<49192, -122945>>,
      <<49190, -122950>>, <<49230, -122880>>,
      <<49189, -122950>>, <<49231, -122880>>, <<49200, -122951>>, <<49200, -122879>> }

DataNext ==
    \/ Len(callers) < MaxInitCalls /\ Initialize
    \/ FetchesSucceed
    \/ LoadFails
    \/ \E cityBoundary \in BoundaryFiles : ParseSucceeds(cityBoundary)
    \/ ParseFails
    \/ \E p \in ProbePoints : GetLocationInfoCall(p[1], p[2])
    \/ GetLocationInfoReturns

SpecData == Init /\ [][DataNext]_vars

(***************************************************************************)
(* Properties of search()                                                  *)
(***************************************************************************)
\* the calls that enter the body of search() (line 32) in this step: a new call
\* on an initialized engine, or a call resuming after `await this.initialize()`
EnteringIds ==
    IF nCalls' # nCalls
    THEN (IF isInitialized THEN {nCalls'} ELSE {})
    ELSE {p.id : p \in {q \in pending : q.pc = "resumeInit" /\ q \notin pending'}}

\* such a call after the step: settled, or suspended
After(k) == IF ret'.id = k THEN ret' ELSE CHOOSE p \in pending' : p.id = k

\* a call settles in this step
Settles == ret'.id # ret.id

\* C1: a search() call whose normalized query and location have a non-error
\* entry in the cache returns that very entry (the same object), sends no
\* request to the AI proxy, runs no local search and leaves the cache as it is.
C1_CacheHitReturnsEntry ==
    [][\A k \in EnteringIds :
          LET c   == After(k)
              key == CacheKey(cleanQuery(c.query.chars), c.location)
          IN  (/\ c.query.isString
               /\ \E i \in DOMAIN searchCache :
                     searchCache[i].key = key /\ searchCache[i].value.method # "error")
              => \E i \in DOMAIN searchCache :
                    /\ searchCache[i].key = key
                    /\ ret'.id = k
                    /\ ret'.settled = "resolved"
                    /\ ret'.result = searchCache[i].value
                    /\ ~ret'.aiRequested
                    /\ ret'.localRuns = 0
                    /\ \A p \in pending' : p.id # k
                    /\ searchCache' = searchCache]_vars

\* a call answered from the cache with the AI result an earlier call stored
C1_Witness ==
    /\ ret.path = "hit"
    /\ ret.result.method = "ai"
    /\ ret.result.id # ret.id

\* C2: once the AI proxy request of a call has rejected, returned a
\* non-success status or returned a malformed body (one that does not parse,
\* or one without the properties of the proxy's answer), the call resolves
\* with method 'local', fallback = true, aiError set to the failure message,
\* and the results of localSearch for its normalized query, location and
\* maxResults.
C2_ProxyFailureFallsBack ==
    (\/ ret.fetched.kind \in {"reject", "status", "badjson"}
     \/ (ret.fetched.kind = "ok" /\ ~ret.fetched.shaped))
    => /\ ret.settled = "resolved"
       /\ ret.result.method = "local"
       /\ ret.result.fallback
       /\ ret.result.aiError # ""
       /\ ret.result.results =
             localSearch(ret.clean, ret.location, ret.maxResults, ret.id).value.results

\* C3: every search() call that settles resolves, whatever its query, and one
\* that met an exception resolves with results [], method 'error' and the
\* message.
C3_SearchNeverRejects ==
    ret.id # 0
    => /\ ret.settled = "resolved"
       /\ ret.path = "error"
          => /\ ret.result.results = <<>>
             /\ ret.result.method = "error"
             /\ ret.result.error # ""

\* the proxy refuses the question: too long, or with a pattern it rejects
Refused(question) ==
    \/ Len(question) > MaxQuestionLength
    \/ \E w \in {Str_script, Str_eval} : Includes(ToLowerCase(question), w)

\* C4, as stated: a search() call with a malformed query (longer than 500
\* characters, or containing 'script' or 'eval') resolves with method 'error'
\* and empty results.
C4_MalformedIsErrorShaped ==
    (ret.id # 0 /\ ret.query.isString /\ Refused(ret.query.chars))
    => /\ ret.settled = "resolved"
       /\ ret.result.method = "error"
       /\ ret.result.results = <<>>

\* C4, amended: a search() call whose normalized query the proxy refuses
\* resolves and never rejects; its result never has method 'ai' and is
\* error-shaped only when local search itself threw.  On the AI path the
\* proxy's refusal (or any other failure of the request) makes the call fall
\* back to local search: method 'local', fallback = true, aiError the message.
C4_RefusedQueryFallsBackToLocal ==
    (ret.id # 0 /\ ret.query.isString /\ Refused(ret.clean))
    => /\ ret.settled = "resolved"
       /\ ret.fetched.kind # "ok"
       /\ ret.result.method \in {"local", "error"}
       /\ ret.result.method = "error" <=> ret.path = "error"
       /\ ret.path = "fallback"
          => /\ ret.result.method = "local"
             /\ ret.result.fallback
             /\ ret.result.aiError # ""
             /\ ret.fetched.kind = "status" /\ ret.fetched.status = 400
                => ret.result.aiError = "AI search failed: 400"

\* a query of 501 characters, refused by the proxy with status 400, answered
\* by the local fallback
C4_Witness ==
    /\ ret.path = "fallback"
    /\ Len(ret.clean) > MaxQuestionLength
    /\ ret.fetched.status = 400
    /\ ret.result.method = "local"

\* C5: every step in which a search() call completes with a result, served
\* from the cache or freshly dispatched, prepends exactly one entry
\* {query, method, timestamp} to the search history.
C5_EveryCompletedSearchRecorded ==
    [][(Settles /\ ret'.path \in {"hit", "local", "ai", "fallback"})
       => /\ searchHistory' # <<>>
          /\ searchHistory'[1].query = ret'.clean
          /\ searchHistory'[1].method = ret'.result.method
          /\ Tail(searchHistory') = Slice(searchHistory, maxHistoryItems - 1)]_vars

\* C6: the history never holds more than maxHistoryItems entries, and they are
\* the most recently recorded searches, most recent first: of 25 recorded
\* searches the 20 most recent.
C6_HistoryBounded ==
    /\ Len(searchHistory) <= maxHistoryItems
    /\ searchHistory = Slice(recorded, maxHistoryItems)
    /\ \A i, j \in DOMAIN searchHistory :
          i < j => searchHistory[i].timestamp >= searchHistory[j].timestamp

\* 25 distinct searches were recorded and 20 remain
C6_Witness ==
    /\ Len(recorded) = 25
    /\ \A i, j \in DOMAIN recorded : i # j => recorded[i].query # recorded[j].query
    /\ Len(searchHistory) = maxHistoryItems
    /\ searchHistory[maxHistoryItems] = recorded[maxHistoryItems]

\* normalization leaves nothing of the character: whitespace, or a character
\* outside [\w\s\-\']
Stripped(ch) == IsSpace(ch) \/ ~(IsWordChar(ch) \/ ch = "-" \/ ch = "'")

\* C7: a search() call whose query holds only whitespace and characters that
\* normalization strips returns {results: [], method: 'none', error: 'Empty
\* query'} at once: no cache read or write, no history entry, no local search
\* and no AI proxy request.
C7_EmptyQueryBypasses ==
    [][\A k \in EnteringIds :
          LET c == After(k)
          IN  (/\ c.query.isString
               /\ \A i \in DOMAIN c.query.chars : Stripped(c.query.chars[i]))
              => /\ ret'.id = k
                 /\ ret'.settled = "resolved"
                 /\ ret'.result.method = "none"
                 /\ ret'.result.results = <<>>
                 /\ ret'.result.error = "Empty query"
                 /\ ~ret'.cacheRead
                 /\ ret'.localRuns = 0
                 /\ ~ret'.aiRequested
                 /\ searchCache' = searchCache
                 /\ searchHistory' = searchHistory]_vars

\* C8: the cache never holds more than maxCacheItems entries; a call that
\* stores a new key in a full cache evicts exactly the entry inserted
\* earliest; and a cache hit changes neither the cache nor its order.
C8_CacheBoundedFifo ==
    [][/\ Len(searchCache') <= maxCacheItems
       /\ (Settles /\ ret'.path = "hit") => searchCache' = searchCache
       /\ (/\ Settles
           /\ ret'.path \in {"local", "ai", "fallback"}
           /\ Len(searchCache) = maxCacheItems
           /\ \A i \in DOMAIN searchCache : searchCache[i].key # ret'.key)
          => searchCache' = Append(Tail(searchCache),
                                   [key |-> ret'.key, value |-> ret'.result])]_vars

\* the cache is full, and the entry the latest cache hit was served from has
\* since been evicted by a new key
C8_Witness ==
    /\ Len(searchCache) = maxCacheItems
    /\ ret.path = "local"
    /\ ret.lastHit # <<>>
    /\ \A i \in DOMAIN searchCache : searchCache[i].key # ret.lastHit

\* C9: the results a search() call returns, on every path, are at most the
\* maxResults given to that call.
C9_ResultsWithinMaxResults ==
    ret.settled = "resolved" => Len(ret.result.results) <= ret.maxResults

\* C10: a search() call with mode 'local' and a non-empty query never returns
\* a result with method 'ai' or with an AI answer.
C10_LocalModeNeverAI ==
    (ret.settled = "resolved" /\ ret.useAI = "local" /\ ret.clean # <<>>)
    => /\ ret.result.method # "ai"
       /\ ret.result.aiResponse = <<>>

(***************************************************************************)
(* Properties of the choice between local and AI search                    *)
(***************************************************************************)
\* 1 to 5 letters, then digits only
IsZoneCode(chars) ==
    \E k \in 1..5 :
        /\ k <= Len(chars)
        /\ \A i \in 1..k : IsUpper(chars[i]) \/ IsLower(chars[i])
        /\ \A i \in (k + 1)..Len(chars) : IsDigit(chars[i])

\* C20: in mode 'auto' a query that is a zone code is answered by the local
\* search as a simple query: the call never waits for the AI proxy or falls
\* back from the AI path, and it sends no request to the proxy
C20_ZoneCodeIsSimple ==
    \A c \in pending :
        (c.useAI = "auto" /\ c.query.isString /\ IsZoneCode(c.query.chars)) =>
            /\ c.pc \in {"awaitInit", "resumeInit", "awaitLocal"}
            /\ ~c.aiRequested

(***************************************************************************)
(* Properties of the result list of localSearch                            *)
(***************************************************************************)
\* the search() calls whose local search returned a result
LocalDone == {c \in pending : c.localRuns = 1 /\ ~c.out.threw}

\* the k-th smallest element of a set of numbers
KthOf(S, k) == CHOOSE i \in S : Cardinality({j \in S : j < i}) = k - 1

\* unique is list without every item that has an earlier item of its key
IsFirstOccurrences(unique, list) ==
    LET keep == {i \in DOMAIN list :
                    \A j \in 1..(i - 1) : DedupKey(list[j]) # DedupKey(list[i])}
    IN  /\ Len(unique) = Cardinality(keep)
        /\ \A k \in DOMAIN unique : unique[k] = list[KthOf(keep, k)]

\* C22: the results of a local search hold no two items of the same key
\* (type, code or name), and removeDuplicates returns its input without the
\* items that have an earlier item of their key, in the input's order
C22_NoDuplicateResults ==
    \A c \in LocalDone :
        LET results == c.out.value.results
            list    == LocalCandidates(c.clean, c.location, c.maxResults)
        IN  /\ \A i, j \in DOMAIN results :
                  i # j => DedupKey(results[i]) # DedupKey(results[j])
            /\ IsFirstOccurrences(removeDuplicates(list), list)

C22_Witness ==
    \E c \in LocalDone :
        LET list == LocalCandidates(c.clean, c.location, c.maxResults)
        IN  /\ Len(removeDuplicates(list)) < Len(list)
            /\ Len(c.out.value.results) >= 4

\* where an item of a local result list comes from: 0 the location, 1 the
\* keywords, 2 a category, 3 the height
SourceOf(item) ==
    IF item.type = "location-specific" THEN 0
    ELSE IF Len(item.matchReason) > 0 /\ item.matchReason[1] = "Category: " THEN 2
    ELSE IF item.type = "zoning" /\ handler = HandlerAlt THEN 3
    ELSE 1

\* C23: a local result list starts with the location item exactly when a
\* location was given that has a land use designation and maxResults >= 1;
\* then come keyword, category (at most 2 per category) and height matches
\* in this order, without duplicates and at most maxResults in all
C23_LocalResultOrder ==
    \A c \in LocalDone :
        LET results == c.out.value.results
            info    == getLocationInfo(c.location.lat, c.location.lng)
        IN  /\ (Len(results) >= 1 /\ results[1].type = "location-specific")
                  <=> (c.location.present /\ info.landUse # Null /\ c.maxResults >= 1)
            /\ \A i \in DOMAIN results : i > 1 => results[i].type # "location-specific"
            /\ \A i, j \in DOMAIN results :
                  i < j => SourceOf(results[i]) <= SourceOf(results[j])
            /\ \A k \in DOMAIN CategoryMap :
                  Cardinality({i \in DOMAIN results :
                                  results[i].matchReason
                                      = <<"Category: ">> \o CategoryMap[k].category}) <= 2
            /\ \A i, j \in DOMAIN results :
                  i # j => DedupKey(results[i]) # DedupKey(results[j])
            /\ Len(results) <= c.maxResults

C23_Witness ==
    \E c \in LocalDone :
        LET results == c.out.value.results
        IN  /\ c.location.present
            /\ Len(results) >= 4
            /\ {SourceOf(results[i]) : i \in DOMAIN results} = 0..3

(***************************************************************************)
(* Properties of the result list of aiSearch                               *)
(***************************************************************************)
\* the search() calls whose aiSearch returned a result for an answer text
AIDone ==
    {c \in pending : c.pc = "awaitAI" /\ ~c.out.threw /\ c.fetched.body.answer # <<>>}

\* the mentioned area codes that are keys of the land use table, in their order
KnownAreas(areas) ==
    SelectSeq(areas, LAMBDA a : \E i \in DOMAIN LandUseDesignations :
                                    LandUseDesignations[i].code = a)

\* the codes of the 'ai-mentioned' items of a result list, in their order
MentionedCodes(results) ==
    LET items == SelectSeq(results, LAMBDA r : r.type = "ai-mentioned")
    IN  [i \in DOMAIN items |-> items[i].code]

\* C24 as stated: with an answer and maxResults >= 1 the first item is the
\* 'ai-answer' item with the answer text, and the 'ai-mentioned' items are
\* those of all mentioned codes the land use table knows, in their order
C24_EveryKnownAreaListed ==
    \A c \in AIDone :
        c.maxResults >= 1 =>
            LET results == c.out.value.results
            IN  /\ Len(results) >= 1
                /\ results[1].type = "ai-answer"
                /\ results[1].description = c.fetched.body.answer
                /\ MentionedCodes(results) = KnownAreas(c.fetched.body.mentionedAreas)

\* C24, amended: with an answer and maxResults >= 1 the first item is the
\* 'ai-answer' item with the answer text, and it is followed by the items of
\* the mentioned codes the land use table knows, in their order, as far as
\* maxResults allows
C24_KnownAreasUpToMaxResults ==
    \A c \in AIDone :
        c.maxResults >= 1 =>
            LET results == c.out.value.results
                known   == KnownAreas(c.fetched.body.mentionedAreas)
                shown   == IF Len(known) < c.maxResults - 1 THEN Len(known)
                           ELSE c.maxResults - 1
            IN  /\ Len(results) = 1 + shown
                /\ results[1].type = "ai-answer"
                /\ results[1].description = c.fetched.body.answer
                /\ \A k \in 1..shown :
                      /\ results[k + 1].type = "ai-mentioned"
                      /\ results[k + 1].code = known[k]

C24_Witness ==
    \E c \in AIDone :
        /\ c.maxResults = 10
        /\ Len(c.fetched.body.mentionedAreas) = 3
        /\ MentionedCodes(c.out.value.results) = << <<"R","D">>, <<"M","H">> >>

(***************************************************************************)
(* Properties of overlapping search() calls                                *)
(***************************************************************************)
\* C25: of two search() calls with the same cache key that are under way at
\* the same time, at most one has sent a request to the AI proxy
C25_OverlappingCallsShareRequest ==
    \A c1, c2 \in pending :
        (c1.id # c2.id /\ c1.cacheRead /\ c2.cacheRead /\ c1.key = c2.key)
            => ~(c1.aiRequested /\ c2.aiRequested)

\* the keys of a cache
KeysOf(cache) == {cache[i].key : i \in DOMAIN cache}

\* C26: a search() call that stores its result removes an entry from the
\* cache only if the cache is full and does not hold the call's key; a call
\* whose key the cache already holds removes none
C26_EvictionOnlyForNewKey ==
    [][(/\ Settles
        /\ ret'.path \in {"local", "ai", "fallback"}
        /\ ~(KeysOf(searchCache) \subseteq KeysOf(searchCache')))
       => (/\ Len(searchCache) = maxCacheItems
           /\ ret'.key \notin KeysOf(searchCache))]_vars

\* two calls that looked into the cache with equal normalized queries and
\* the same key have the same location
SameKeySameLocation(c1, c2) ==
    (c1.cacheRead /\ c2.cacheRead /\ c1.clean = c2.clean /\ c1.key = c2.key)
        => c1.location = c2.location

\* C27: search() calls with equal normalized queries have the same cache key
\* only if their locations are equal: both absent, or the same lat and lng
C27_CacheKeySeparatesLocations ==
    /\ \A c1, c2 \in pending : SameKeySameLocation(c1, c2)
    /\ \A c \in pending : SameKeySameLocation(ret, c)

(***************************************************************************)
(* Properties of a search() call that ends with method 'error'             *)
(***************************************************************************)
\* C28: a search() call that ends with method 'error' changes neither the
\* cache nor the history, no cache entry has method 'error', and a call that
\* enters search() with the key of the call that just ended with an error is
\* not answered from the cache
C28_ErrorLeavesCacheAndHistory ==
    [][/\ (Settles /\ ret'.path = "error")
             => (searchCache' = searchCache /\ searchHistory' = searchHistory)
       /\ \A i \in DOMAIN searchCache' : searchCache'[i].value.method # "error"
       /\ \A k \in EnteringIds :
             (ret.path = "error" /\ After(k).cacheRead /\ After(k).key = ret.key)
                 => ~(ret'.id = k /\ ret'.path = "hit")]_vars

\* after a call ended with an error, a later call with its key runs the
\* local search again
C28_Witness ==
    /\ ret.path = "error"
    /\ ret.result.method = "error"
    /\ \E c \in pending : c.id > ret.id /\ c.key = ret.key /\ c.localRuns = 1

(***************************************************************************)
(* Progress of search()                                                    *)
(***************************************************************************)
\* C29: a search() call that waits for the data to be loaded eventually
\* settles, whether the load succeeds or fails
C29_EarlySearchSettles ==
    \A id \in 1..MaxCalls :
        (\E c \in pending : c.id = id /\ c.pc = "awaitInit")
            ~> (\A c \in pending : c.id # id)

(***************************************************************************)
(* Properties of cleanQuery                                                *)
(***************************************************************************)
\* C30: the normalized query of every search() call is a fixed point of
\* cleanQuery, and so has no space at its start or end
C30_CleanQueryIdempotent ==
    /\ \A c \in pending :
          c.clean # <<>> =>
              /\ cleanQuery(c.clean) = c.clean
              /\ c.clean[1] # " " /\ c.clean[Len(c.clean)] # " "
    /\ ret.clean # <<>> =>
          /\ cleanQuery(ret.clean) = ret.clean
          /\ ret.clean[1] # " " /\ ret.clean[Len(ret.clean)] # " "

(***************************************************************************)
(* Properties of the local keyword search                                  *)
(***************************************************************************)
\* the words of a normalized query: its parts between whitespace
WordsOf(clean) == {w \in Range(SplitOnSpace(clean)) : w # <<>>}

\* the text searchByKeywords searches for an item it returned
SearchableText(item) ==
    IF item.type \in {"land-use", "landUse"}
    THEN LET d == LandUseDesignations[CHOOSE i \in DOMAIN LandUseDesignations :
                                         LandUseDesignations[i].code = item.code]
         IN  IF handler = HandlerAlt
             THEN d.name \o <<" ">> \o d.description \o <<" ">> \o Join(d.principalUses)
                  \o <<" ">> \o Join(d.complementaryUses)
             ELSE d.name \o <<" ">> \o d.description \o <<" ">> \o d.category
    ELSE IF item.type = "zoning"
    THEN LET z == AllZones[CHOOSE i \in DOMAIN AllZones : AllZones[i].zone.code = item.code]
         IN  z.zone.name \o <<" ">> \o z.zone.description \o <<" ">> \o z.categoryName
    ELSE item.name \o <<" ">> \o item.description

\* C17: for the normalized query of every search() call that runs the local
\* search, each item searchByKeywords returns has a searchable text that
\* contains one of the query's words
C17_KeywordHitsContainAWord ==
    \A c \in pending :
        c.localRuns = 1 =>
            LET hits == searchByKeywords(c.clean)
            IN  \A i \in DOMAIN hits :
                    \E w \in WordsOf(c.clean) :
                        Includes(ToLowerCase(SearchableText(hits[i])), w)

(***************************************************************************)
(* Properties of parseHeightQuery                                          *)
(***************************************************************************)
\* C16: for every N, parseHeightQuery('under Nm') is {min: null, max: N} and
\* parseHeightQuery('over Nm') is {min: N, max: null}
C16_MetreAbbreviationParsed ==
    \A n \in 0..MaxHeightNumber :
        /\ heightCall.queryLower = Str_under \o Decimal(n) \o <<"m">>
              => heightCall.result = [matched |-> TRUE, hasMin |-> FALSE, min |-> 0,
                                       hasMax |-> TRUE, max |-> n]
        /\ heightCall.queryLower = Str_over \o Decimal(n) \o <<"m">>
              => heightCall.result = [matched |-> TRUE, hasMin |-> TRUE, min |-> n,
                                       hasMax |-> FALSE, max |-> 0]

\* metres per unit word: 3 for storeys and floors, 1 for metres
MetresPer(unitWord) ==
    IF unitWord \in {Str_storey, Str_storey \o <<"s">>, Str_floor, Str_floor \o <<"s">>}
    THEN 3 ELSE 1

\* C21: 'over N U', 'under N U' and 'between N and M U', with U a unit word in
\* singular or plural, give {min: N*k, max: null}, {min: null, max: N*k} and
\* {min: N*k, max: M*k} with k = 3 for storeys and floors and 1 for metres; a
\* query without a bound word or without a unit word gives null
C21_HeightPhrasings ==
    /\ \A n \in 0..MaxHeightNumber : \A u \in UnitWords :
          /\ heightCall.queryLower = Str_over \o Decimal(n) \o <<" ">> \o u
                => heightCall.result = [matched |-> TRUE, hasMin |-> TRUE,
                                         min |-> n * MetresPer(u),
                                         hasMax |-> FALSE, max |-> 0]
          /\ heightCall.queryLower = Str_under \o Decimal(n) \o <<" ">> \o u
                => heightCall.result = [matched |-> TRUE, hasMin |-> FALSE, min |-> 0,
                                         hasMax |-> TRUE, max |-> n * MetresPer(u)]
          /\ \A m \in 0..MaxHeightNumber :
                heightCall.queryLower
                    = Str_between \o Decimal(n) \o Str_and \o Decimal(m) \o <<" ">> \o u
                => heightCall.result = [matched |-> TRUE,
                                         hasMin |-> TRUE, min |-> n * MetresPer(u),
                                         hasMax |-> TRUE, max |-> m * MetresPer(u)]
    /\ heightCall.called /\ heightCall.queryLower \in PlainHeightQueries
          => heightCall.result = NoHeight

C21_Witness ==
    /\ heightCall.called
    /\ heightCall.queryLower
          = Str_between \o Decimal(7) \o Str_and \o Decimal(MaxHeightNumber) \o <<" ">> \o Str_floor \o <<"s">>
    /\ heightCall.result.min = 21
    /\ heightCall.result.max = 3 * MaxHeightNumber

(***************************************************************************)
(* Properties of the proxy                                                 *)
(***************************************************************************)
\* the function handles a request in this step
Handled == windows' # windows \/ response' # response

\* the address the proxy counts the last request under
Client == ClientIP(response.event)

\* C18: of the requests of a client that reach the rate-limit check within
\* one window, the first 30 are allowed and every later one gets 429 with the
\* seconds left in the window as Retry-After; the first request after the
\* window expired is allowed and is counted as the first of a new window
C18_ThirtyPerWindow ==
    [][ (Handled /\ response'.checked) =>
          LET w == WindowOf(windows', Client')
          IN  /\ (response'.statusCode = 429) <=> (w.seen > 30)
              /\ response'.statusCode = 429
                    => response'.retryAfter = (w.start + 60 - clock) * 60
              /\ w.seen = 1
                    => /\ response'.statusCode # 429
                       /\ StoreGet(rateLimitStore', RateLimitKey(Client')).count = 1
                       /\ StoreGet(rateLimitStore', RateLimitKey(Client')).resetTime
                             = clock + 60
      ]_vars

\* the 31st request of a window is refused in the window's last minute
C18_Witness ==
    /\ response.statusCode = 429
    /\ response.retryAfter = 0
    /\ WindowOf(windows, Client).seen = 31
    /\ WindowOf(windows, Client).start > 0

\* the client's quota is used up: 30 requests in a window that has not expired
QuotaUsedUp(ip) ==
    LET w == WindowOf(windows, ip)
    IN  w.open /\ clock <= w.start + 60 /\ w.seen >= 30

\* the headers of a caller the proxy serves
AllowedCallers ==
    { Headers(LocalOrigin, <<>>, Forwarded, <<>>),
      Headers(VitePort, <<>>, <<>>, FirstAddress),
      Headers(<<>>, PreviewPage, FirstAddress, OtherAddress) }

\* the status the checks give in their order
StatusInOrder(event, apiKey, upstream, usedUp) ==
    IF event.httpMethod # "POST" THEN 405
    ELSE IF event.headers \notin AllowedCallers THEN 403
    ELSE IF usedUp THEN 429
    ELSE IF event.body # Parsed(RequestData(TRUE, TRUE, TRUE, Str_zoning)) THEN 400
    ELSE IF ~apiKey \/ upstream # "ok" THEN 500
    ELSE 200

\* C19: a request other than OPTIONS is answered 405, 403, 429, 400, 500 or
\* 200 by the first check in this order that fails, and the upstream API is
\* called only when the method, the origin, the quota, the body and the API
\* key passed
C19_ChecksInOrder ==
    [][ (Handled /\ response'.event.httpMethod # "OPTIONS") =>
          /\ response'.statusCode =
                StatusInOrder(response'.event, response'.apiKey, response'.upstream,
                              QuotaUsedUp(Client'))
          /\ response'.upstreamCalled =
                (/\ StatusInOrder(response'.event, TRUE, "ok", QuotaUsedUp(Client')) = 200
                 /\ response'.apiKey)
      ]_vars

\* a request with a body that is no JSON, refused for the quota
C19_Witness ==
    /\ response.statusCode = 429
    /\ response.event.body = NoJson

(***************************************************************************)
(* Properties of the data handler                                          *)
(***************************************************************************)
\* C11: however often and whenever initialize() is called, the data files are
\* fetched at most once and every caller holds the promise of that one load,
\* so all callers get the same outcome; a rejected load is not started again
C11_LoadedOnce ==
    /\ Len(loads) <= 1
    /\ \A i \in DOMAIN callers : callers[i] = 1 /\ loads[callers[i]] = loadingPromise
    /\ loadPc = "failed" => loadingPromise = "rejected"

\* three callers of a load that was rejected
C11_Witness ==
    /\ Len(callers) >= 3
    /\ loadingPromise = "rejected"

\* what the read accessors are asked for
AccessorCodes == {<<"R","D">>, <<"R","M">>, <<"M","H">>, <<"R","S","1">>, <<"M","U","2">>}

AccessorWords == {Str_residential, Str_housing, Str_economy, Str_mixed_use, <<"h","o","m","e","s">>}

\* every read accessor answers as before the load: null or an empty list
AccessorsEmpty ==
    /\ \A code \in AccessorCodes : getLandUseInfo(code) = Null /\ getZoningInfo(code) = Null
    /\ \A word \in AccessorWords :
          /\ getPoliciesByCategory(word) = <<>>
          /\ searchByCategory(word) = <<>>
          /\ searchByKeywords(word) = <<>>

\* C12: isLoaded is true only when every file was fetched and parsed; until
\* then, and for good when a fetch or a parse failed, initialize() has not
\* resolved, no 'ocpDataLoaded' event was dispatched and every read accessor
\* returns null or an empty list, whatever part of the files is already stored
C12_NoPartialLoad ==
    /\ isLoaded => loadPc = "done" /\ \A i \in DOMAIN DataFiles : data[DataFiles[i]]
    /\ ~isLoaded => dispatched = 0 /\ loadingPromise # "resolved" /\ AccessorsEmpty
    /\ loadPc = "failed" =>
          /\ ~isLoaded
          /\ \A i \in DOMAIN callers : loads[callers[i]] = "rejected"

\* the third file did not parse: two files are stored and the load was rejected
C12_Witness ==
    /\ loadPc = "failed"
    /\ data.landUse /\ data.zoning /\ ~data.policies
    /\ callers # <<>>

\* C13: with a ring list that is not empty, isWithinNewWestminster is true
\* exactly when isPointInPolygon is true for at least one ring; a point in a
\* hole ring is inside
C13_UnionOfRings ==
    (located.called /\ located.geometry.set /\ located.geometry.rings # <<>>) =>
        located.info.withinBoundary =
            (\E r \in DOMAIN located.geometry.rings :
                 isPointInPolygon(located.lat, located.lng, located.geometry.rings[r]))

\* a point in the hole of the main ring, reported inside
C13_Witness ==
    /\ located.called
    /\ located.geometry.rings = BoundaryRings
    /\ isPointInPolygon(located.lat, located.lng, BoundaryRings[1])
    /\ isPointInPolygon(located.lat, located.lng, BoundaryRings[2])
    /\ located.info.withinBoundary

\* 49.19 <= lat <= 49.23 and -122.95 <= lng <= -122.88
InBox(lat, lng) == 49190 <= lat /\ lat <= 49230 /\ -122950 <= lng /\ lng <= -122880

\* C14: without boundary geometry, or with an empty ring list,
\* isWithinNewWestminster is true exactly for the points of the bounding box,
\* edges included; and a point outside every loaded ring and outside the box
\* is never inside
C14_FallbackBox ==
    located.called =>
        /\ (~located.geometry.set \/ located.geometry.rings = <<>>)
              => located.info.withinBoundary = InBox(located.lat, located.lng)
        /\ (/\ ~InBox(located.lat, located.lng)
            /\ \A r \in DOMAIN located.geometry.rings :
                  ~isPointInPolygon(located.lat, located.lng, located.geometry.rings[r]))
              => ~located.info.withinBoundary

\* a corner of the box, inside, with a boundary file that has no polygon
C14_Witness ==
    /\ located.called
    /\ located.geometry.set
    /\ located.geometry.rings = <<>>
    /\ located.lat = 49190 /\ located.lng = -122950
    /\ located.info.withinBoundary

\* C15: getLocationInfo returns in every state of the load; outside the
\* boundary it returns withinBoundary = false, no land use, no zoning and no
\* policies, and inside it attaches at most 2 policies
C15_LocationInfoShape ==
    /\ locating.active => ENABLED GetLocationInfoReturns
    /\ located.called =>
          /\ ~located.info.withinBoundary
                => /\ located.info.landUse = Null
                   /\ located.info.zoning = Null
                   /\ located.info.policies = <<>>
          /\ Len(located.info.policies) <= 2

\* a location inside, with the two policies of three it gets
C15_Witness ==
    /\ located.called
    /\ located.info.withinBoundary
    /\ Len(located.info.policies) = 2
    /\ Len(getPoliciesByCategory(Str_economy)) = 3

====
